---- MODULE Spec2Model ----
(***************************************************************************)
(* A model of the Ramp developer documentation server:                     *)
(*   src/src/knowledge_base.py            RampKnowledgeBase                *)
(*   src/src/tools/get_endpoint_schema.py GetEndpointSchemaTool            *)
(*   src/src/tools/search_documentation.py SearchDocumentationTool         *)
(*                                                                         *)
(* Text is modelled by TLA+ strings, on which TLC evaluates Len, SubSeq    *)
(* and \o; every Python string method the code uses is an operator below,  *)
(* computed the way CPython computes it.                                   *)
(***************************************************************************)
EXTENDS Integers, Sequences, FiniteSets, TLC

VARIABLES
    pc,         \* position of the current invocation ("start" before it runs)
    query,      \* argument of detect_intent / get_workflow_guidance
    cluster,    \* value returned by detect_intent (None for no cluster)
    files,      \* guide files on disk: filename -> raw text (NoFile when absent)
    guides,     \* self.guides, the store loaded at startup: <<[path, content]>>
    sections,   \* the list of {title, content} sections extracted from a guide
    guidance,   \* text returned by get_workflow_guidance
    content,    \* argument `content` of _extract_markdown_section
    header,     \* argument `section_header` of _extract_markdown_section
    section,    \* value returned by _extract_markdown_section
    paths,      \* openapi_spec['paths']: <<[path, methods]>> in document order
    endpoints,  \* self.endpoints, the endpoint index built at startup
    endpoint,   \* argument `endpoint` of get_endpoint_schema
    method,     \* argument `method` of get_endpoint_schema (NoArg when omitted)
    include_related, \* argument `include_related` ("True", "False", NoArg when omitted)
    matches,    \* value returned by _find_matching_endpoints (None before the lookup)
    response,   \* answer of GetEndpointSchemaTool.execute
    schema,     \* argument `schema` of _generate_schema_example
    is_response,\* argument `is_response` of _generate_schema_example
    example,    \* value returned by _generate_schema_example
    relevant_guides, \* value returned by _find_relevant_guides
    search_result, \* answer of SearchDocumentationTool.execute
    tasks,      \* the invocations in flight: <<[call, done, result]>>
    startup,    \* the store, document and index as __init__ left them
    openapi_file, \* data/developer-api.json at startup: "valid", "missing" or "invalid"
    tool_lookup,  \* server.py's tool_lookup, the names of the registered tools in order
    call_name,    \* argument `name` of call_tool
    arguments,    \* argument `arguments` of call_tool: <<[key, value]>> in insertion order
    outcome,      \* how call_tool ended: [kind, text], kind "return" or "raise"
    calls,        \* the methods the tool's execute called, in order
    requests,     \* the calls of client.get by submit_feedback: <<[feedback, reply]>>
    normalized, \* value returned by _preprocess_query (None before the call)
    filenames,  \* the `filename` arguments of two calls of _calculate_relevance
    relevance   \* the values the two calls returned (<<>> before the calls)

intentVars == <<query, cluster>>
storeVars == <<files, guides>>
guideVars == <<sections, guidance>>
extractVars == <<content, header, section>>
schemaVars == <<paths, endpoints, endpoint, method, include_related, matches, response>>

exampleVars == <<schema, is_response, example>>

searchVars == <<relevant_guides, search_result>>

taskVars == <<tasks, startup>>

serverVars == <<openapi_file, tool_lookup, call_name, arguments, outcome, calls, requests>>

calcVars == <<normalized, filenames, relevance>>

vars == <<pc, intentVars, storeVars, guideVars, extractVars, schemaVars, exampleVars, searchVars, taskVars, serverVars, calcVars>>

None == "<None>"
NoFile == "<no file>"
NoArg == "<omitted>"

(***************************************************************************)
(* Python str primitives.                                                  *)
(***************************************************************************)
Char(s, i) == SubSeq(s, i, i)

From(s, i) == SubSeq(s, i, Len(s))

\* s.startswith(prefix)
StartsWith(s, prefix) ==
    Len(prefix) <= Len(s) /\ SubSeq(s, 1, Len(prefix)) = prefix

\* s.endswith(suffix)
EndsWith(s, suffix) ==
    Len(suffix) <= Len(s) /\ SubSeq(s, Len(s) - Len(suffix) + 1, Len(s)) = suffix

\* s.find(sub) + 1: index of the first occurrence, 0 when there is none
Find(s, sub) ==
    LET hits == {i \in 1..(Len(s) - Len(sub) + 1) : SubSeq(s, i, i + Len(sub) - 1) = sub}
    IN IF hits = {} THEN 0 ELSE CHOOSE i \in hits : \A j \in hits : i <= j

\* sub in s
Contains(s, sub) ==
    \E i \in 1..(Len(s) - Len(sub) + 1) : SubSeq(s, i, i + Len(sub) - 1) = sub

\* s.replace(old, new): every non-overlapping occurrence, left to right
RECURSIVE Replace(_, _, _)
Replace(s, old, new) ==
    LET i == Find(s, old)
    IN IF i = 0 THEN s
       ELSE SubSeq(s, 1, i - 1) \o new \o Replace(From(s, i + Len(old)), old, new)

UpperAlphabet == "ABCDEFGHIJKLMNOPQRSTUVWXYZ"
LowerAlphabet == "abcdefghijklmnopqrstuvwxyz"

UpperLetters == {Char(UpperAlphabet, i) : i \in 1..Len(UpperAlphabet)}

LowerChar(c) ==
    IF c \in UpperLetters THEN Char(LowerAlphabet, Find(UpperAlphabet, c)) ELSE c

\* s.lower(), by halves
RECURSIVE Lower(_)
Lower(s) ==
    IF Len(s) = 0 THEN ""
    ELSE IF Len(s) = 1 THEN LowerChar(s)
    ELSE Lower(SubSeq(s, 1, Len(s) \div 2)) \o Lower(From(s, Len(s) \div 2 + 1))

UpperChar(c) ==
    IF Find(LowerAlphabet, c) # 0 /\ Len(c) = 1
    THEN Char(UpperAlphabet, Find(LowerAlphabet, c)) ELSE c

\* s.upper()
RECURSIVE Upper(_)
Upper(s) == IF s = "" THEN "" ELSE UpperChar(Char(s, 1)) \o Upper(From(s, 2))

\* the characters of the texts compared below, in code point order
CodePoints ==
    " '*-./0123456789:ABCDEFGHIJKLMNOPQRSTUVWXYZ_abcdefghijklmnopqrstuvwxyz{}"

\* a < b for str: the first differing character decides, a proper prefix is less
RECURSIVE StrLess(_, _)
StrLess(a, b) ==
    IF b = "" THEN FALSE
    ELSE IF a = "" THEN TRUE
    ELSE IF Char(a, 1) = Char(b, 1) THEN StrLess(From(a, 2), From(b, 2))
    ELSE Find(CodePoints, Char(a, 1)) < Find(CodePoints, Char(b, 1))

\* sorted(list(set(S)))
RECURSIVE Sorted(_)
Sorted(S) ==
    IF S = {} THEN <<>>
    ELSE LET least == CHOOSE x \in S : \A y \in S : x = y \/ StrLess(x, y)
         IN <<least>> \o Sorted(S \ {least})

IsSpace(c) == c \in {" ", "\n", "\t", "\r"}

\* s.lstrip(), s.rstrip(), s.strip()
LStrip(s) ==
    IF \A i \in 1..Len(s) : IsSpace(Char(s, i)) THEN ""
    ELSE From(s, CHOOSE i \in 1..Len(s) :
                    ~IsSpace(Char(s, i)) /\ \A j \in 1..(i - 1) : IsSpace(Char(s, j)))

RStrip(s) ==
    IF \A i \in 1..Len(s) : IsSpace(Char(s, i)) THEN ""
    ELSE SubSeq(s, 1, CHOOSE i \in 1..Len(s) :
                    ~IsSpace(Char(s, i)) /\ \A j \in (i + 1)..Len(s) : IsSpace(Char(s, j)))

Strip(s) == LStrip(RStrip(s))

\* s.split(): the maximal runs of non-whitespace characters
RECURSIVE Split(_)
Split(s) ==
    LET t == LStrip(s)
        ws == {i \in 1..Len(t) : IsSpace(Char(t, i))}
        e == IF ws = {} THEN Len(t) + 1 ELSE CHOOSE i \in ws : \A j \in ws : i <= j
    IN IF t = "" THEN <<>> ELSE <<SubSeq(t, 1, e - 1)>> \o Split(From(t, e))

\* s.split(sep) for a one-character separator
RECURSIVE SplitOn(_, _)
SplitOn(s, sep) ==
    LET i == Find(s, sep)
    IN IF i = 0 THEN <<s>> ELSE <<SubSeq(s, 1, i - 1)>> \o SplitOn(From(s, i + 1), sep)

\* sep.join(parts)
RECURSIVE Join(_, _)
Join(parts, sep) ==
    IF parts = <<>> THEN ""
    ELSE IF Len(parts) = 1 THEN parts[1]
    ELSE parts[1] \o sep \o Join(Tail(parts), sep)

\* s[:n]
Prefix(s, n) == SubSeq(s, 1, IF n < Len(s) THEN n ELSE Len(s))

Range(f) == {f[i] : i \in DOMAIN f}

(***************************************************************************)
(* The cluster catalog, in catalog (dict insertion) order.  The first      *)
(* authentication warning starts in the source with a warning sign, which  *)
(* is left out here; the text after it is the source's.                    *)
(***************************************************************************)
use_case_clusters == <<
    [name |-> "authentication",
     keywords |->
       <<"authentication", "setup", "auth", "oauth", "authorization code",
         "internal integration", "oauth flows", "access token", "bearer token",
         "refresh token">>,
     guides |-> <<"authorization.mdx">>,
     endpoints |->
       <<"/developer/v1/token">>,
     warnings |->
       <<"CRITICAL: Never call /developer/v1/token from browser JavaScript! This causes CORS errors. For browser-based apps: (1) Use OAuth2 Authorization Code flow to redirect users to Ramp for authentication, or (2) Use your backend server to proxy token requests with client_credentials flow.">>],
    [name |-> "ap_workflow",
     keywords |->
       <<"bills", "accounts payable", "ap", "vendors", "payments", "bill pay",
         "invoice">>,
     guides |-> <<"guides/bill-pay.mdx">>,
     endpoints |->
       <<"/developer/v1/bills", "/developer/v1/bills/drafts",
         "/developer/v1/vendors", "/developer/v1/vendors/{vendor_id}/accounts",
         "/developer/v1/vendors/{vendor_id}/update-bank-accounts">>,
     warnings |->
       <<"In Ramp's API, payments are not managed by their own endpoints. Payment information is nested within the Bills endpoint and bill payments are executed by creating Bills.">>],
    [name |-> "erp_integration",
     keywords |->
       <<"erp", "accounting", "gl", "sync">>,
     guides |-> <<"guides/accounting.mdx">>,
     endpoints |->
       <<"/developer/v1/accounting/accounts", "/developer/v1/accounting/syncs",
         "/developer/v1/accounting/connection",
         "/developer/v1/accounting/vendors", "/developer/v1/accounting/fields">>,
     warnings |->
       <<>>],
    [name |-> "card_management",
     keywords |->
       <<"cards", "virtual cards", "card create", "card issue", "card creation",
         "card issuing", "card endpoints", "limits", "spend limits",
         "spending limits", "spend programs", "card programs", "card management",
         "funds", "funding", "card funding", "card budget", "balance management",
         "virtual card budget", "card allowance", "budget control",
         "spend allowance">>,
     guides |-> <<"guides/cards-and-funds.mdx">>,
     endpoints |->
       <<"/developer/v1/limits", "/developer/v1/limits/{spend_limit_id}",
         "/developer/v1/cards/deferred/physical", "/developer/v1/spend-programs",
         "/developer/v1/card-programs">>,
     warnings |->
       <<"All /cards endpoints except for /developer/v1/cards/deferred/physical are deprecated and should not be used. In Ramp's API, virtual cards are funded through 'limits' endpoints. Create a limit first to set the budget, then assign it to a user to automatically generate a virtual card.">>],
    [name |-> "user_management",
     keywords |->
       <<"users", "team", "onboarding", "permissions", "departments">>,
     guides |-> <<>>,
     endpoints |->
       <<"/developer/v1/users", "/developer/v1/departments",
         "/developer/v1/locations", "/developer/v1/entities">>,
     warnings |->
       <<>>],
    [name |-> "expense_reporting",
     keywords |->
       <<"expenses", "transactions", "export", "reporting", "analytics">>,
     guides |-> <<>>,
     endpoints |->
       <<"/developer/v1/transactions", "/developer/v1/receipts">>,
     warnings |->
       <<>>],
    [name |-> "agents",
     keywords |->
       <<"mcp", "agents", "ai", "claude", "automation", "workflows",
         "mcp integration", "model context protocol", "mcp server", "mcp setup">>,
     guides |-> <<"guides/ramp-mcp-remote.mdx">>,
     endpoints |->
       <<>>,
     warnings |->
       <<>>],
    [name |-> "webhooks",
     keywords |->
       <<"webhooks", "webhook", "real-time", "events", "notifications",
         "push notifications", "event subscriptions", "webhook subscription",
         "webhook endpoint", "real time updates", "event driven", "real time",
         "push", "subscribe", "notification">>,
     guides |-> <<"webhooks.mdx">>,
     endpoints |->
       <<"/developer/v1/webhooks">>,
     warnings |->
       <<>>]>>

synonyms == <<
    <<"creation", "create">>,
    <<"issuance", "issue">>,
    <<"issuing", "issue">>,
    <<"provision", "create">>,
    <<"provisioning", "create">>,
    <<"generation", "create">>,
    <<"generating", "create">>,
    <<"endpoint", "api">>,
    <<"endpoints", "api">>,
    <<"route", "api">>,
    <<"routes", "api">>,
    <<"workflow", "process">>,
    <<"procedure", "process">>,
    <<"steps", "process">>,
    <<"integration", "integrate">>,
    <<"connection", "connect">>,
    <<"linking", "connect">>,
    <<"setup", "set up">>,
    <<"config", "configure">>>>

noise_words ==
    <<" with ramp", " with the ramp", " using ramp", " using the ramp", " api",
      " the api", " ramp's api", " ramp api", " with", " using", " the", " a",
      " an", " how do i", " how to", " i want to", " i need to">>

Len_clusters == Len(use_case_clusters)

ClusterNames == {use_case_clusters[i].name : i \in 1..Len_clusters}

\* self.use_case_clusters.get(name, {})
ClusterData(name) ==
    LET i == CHOOSE i \in 1..Len_clusters : use_case_clusters[i].name = name
    IN use_case_clusters[i]

(***************************************************************************)
(* _preprocess_query: the synonym table entries, then the noise phrases,   *)
(* each applied once with str.replace in the declared order, then          *)
(* " ".join(query.split()) and strip().                                    *)
(***************************************************************************)
RECURSIVE ApplySynonyms(_, _)
ApplySynonyms(q, i) ==
    IF i > Len(synonyms) \/ q = "" THEN q
    ELSE ApplySynonyms(Replace(q, synonyms[i][1], synonyms[i][2]), i + 1)

RECURSIVE StripNoise(_, _)
StripNoise(q, i) ==
    IF i > Len(noise_words) \/ q = "" THEN q
    ELSE StripNoise(Replace(q, noise_words[i], " "), i + 1)

\* mutant: the noise phrases are removed before the synonyms are replaced
PreprocessNoiseFirst(text) ==
    Strip(Join(Split(ApplySynonyms(StripNoise(text, 1), 1)), " "))

preprocess_query(text) ==
    Strip(Join(Split(StripNoise(ApplySynonyms(text, 1), 1)), " "))

(***************************************************************************)
(* detect_intent.  Scores are kept in tenths (score 1.5 is 15): every      *)
(* score the catalog can produce is a multiple of 0.1 on which Python's    *)
(* float comparison agrees with the exact one.                             *)
(***************************************************************************)
\* keyword.lower(), tabulated once for the keywords of the catalog
AllKeywords == UNION {Range(use_case_clusters[i].keywords) : i \in 1..Len_clusters}

keyword_lower == [k \in AllKeywords |-> Lower(k)]

\* the keywords of the cluster found in the query, in keyword order
matched_keywords(c, query_lower) ==
    SelectSeq(c.keywords, LAMBDA k : Contains(query_lower, keyword_lower[k]))

raw_matches(c, query_lower) == Len(matched_keywords(c, query_lower))

MultiWordBonus10 == 5
GenericPenalty10 == 3

RECURSIVE KeywordAdjust10(_)
KeywordAdjust10(ks) ==
    IF ks = <<>> THEN 0
    ELSE (IF Len(Split(ks[1])) > 1 THEN MultiWordBonus10 ELSE 0)
         - (IF ks[1] \in {"ap", "ai"} THEN GenericPenalty10 ELSE 0)
         + KeywordAdjust10(Tail(ks))

score10(c, query_lower) ==
    10 * raw_matches(c, query_lower) + KeywordAdjust10(matched_keywords(c, query_lower))

\* mutant: the refined score is compared before the raw match count
BetterScoreFirst(raw, score, best) ==
    (score > best.score) \/ (score = best.score /\ raw > best.raw)

\* mutant: an equal score replaces the incumbent
BetterOrEqual(raw, score, best) ==
    (raw > best.raw) \/ (raw = best.raw /\ score >= best.score)

\* the replacement test of one loop iteration
Better(raw, score, best) ==
    (raw > best.raw) \/ (raw = best.raw /\ score > best.score)

\* mutant: a cluster counts as matched only with a refined score of 1 or more
IntentStepWholeScore(best, c, query_lower) ==
    LET raw == raw_matches(c, query_lower)
        score == score10(c, query_lower)
    IN IF score >= 10 /\ Better(raw, score, best)
       THEN [match |-> c.name, score |-> score, raw |-> raw]
       ELSE best

\* one iteration of the loop over the clusters
IntentStep(best, c, query_lower) ==
    LET raw == raw_matches(c, query_lower)
        score == score10(c, query_lower)
    IN IF raw > 0 /\ Better(raw, score, best)
       THEN [match |-> c.name, score |-> score, raw |-> raw]
       ELSE best

RECURSIVE IntentLoop(_, _, _)
IntentLoop(best, i, query_lower) ==
    IF i > Len_clusters THEN best
    ELSE IntentLoop(IntentStep(best, use_case_clusters[i], query_lower), i + 1, query_lower)

detect_intent(q) ==
    IntentLoop([match |-> None, score |-> 0, raw |-> 0], 1,
               preprocess_query(Lower(q))).match

(***************************************************************************)
(* Queries: up to MaxTokens phrases of the vocabulary, separated by single *)
(* spaces.  The vocabulary holds keywords of several clusters, the two     *)
(* penalised keywords' "ap", a keyword the synonym table rewrites, mixed   *)
(* case and a phrase with no keyword.                                      *)
(***************************************************************************)
MaxTokens == 3

Vocabulary ==
    {"ap", "bills vendors", "virtual card budget", "setup", "OAuth",
     "users", "sync", "the docs"}

Queries ==
    {Join(s, " ") : s \in UNION {[1..n -> Vocabulary] : n \in 1..MaxTokens}}

IdleIntent == query = "" /\ cluster = None
IdleStore == files = <<>> /\ guides = <<>>
IdleGuide == sections = <<>> /\ guidance = None
IdleExtract == content = "" /\ header = "" /\ section = None
IdleSchema ==
    /\ paths = <<>> /\ endpoints = <<>> /\ endpoint = "" /\ method = NoArg
    /\ include_related = NoArg /\ matches = None /\ response = None
IdleExample == schema = None /\ is_response = FALSE /\ example = None
IdleSearch == relevant_guides = <<>> /\ search_result = None
IdleTasks == tasks = <<>> /\ startup = None
IdleServer ==
    /\ openapi_file = "valid" /\ tool_lookup = <<>> /\ call_name = "" /\ arguments = <<>>
    /\ outcome = None /\ calls = <<>> /\ requests = <<>>
IdleCalc == normalized = None /\ filenames = <<>> /\ relevance = <<>>

InitIntent ==
    /\ pc = "start"
    /\ query \in Queries
    /\ cluster = None
    /\ IdleStore /\ IdleGuide /\ IdleExtract /\ IdleSchema /\ IdleExample /\ IdleSearch /\ IdleTasks /\ IdleServer /\ IdleCalc

\* RampKnowledgeBase.detect_intent(query)
DetectIntent ==
    /\ pc = "start"
    /\ cluster' = detect_intent(query)
    /\ pc' = "done"
    /\ UNCHANGED <<calcVars, serverVars, taskVars, searchVars, exampleVars, query, storeVars, guideVars, extractVars, schemaVars>>

NextIntent == DetectIntent

SpecIntent == InitIntent /\ [][NextIntent]_vars

(***************************************************************************)
(* Claims about detect_intent (SpecIntent).                                *)
(***************************************************************************)
\* the normalized text the keywords are matched against
NormalizedQuery == preprocess_query(Lower(query))

\* per cluster, in catalog order: raw_matches and the refined score (tenths)
TallyOf(ql) ==
    [i \in 1..Len_clusters |->
        [name |-> use_case_clusters[i].name,
         raw |-> raw_matches(use_case_clusters[i], ql),
         score |-> score10(use_case_clusters[i], ql)]] \o <<>>

Tally == TallyOf(NormalizedQuery)

MaxRaw(t) == CHOOSE r \in {t[i].raw : i \in DOMAIN t} : \A j \in DOMAIN t : t[j].raw <= r

\* the clusters of a tally with the maximal raw_matches
Top(t) == {i \in DOMAIN t : t[i].raw = MaxRaw(t)}

RawOf(t, name) == IF name = None THEN 0 ELSE t[CHOOSE i \in DOMAIN t : t[i].name = name].raw

HasGreatestRaw(t, name) == \A i \in DOMAIN t : t[i].raw <= RawOf(t, name)

\* C1: the cluster detect_intent returns has the greatest raw_matches of all
\* clusters; one with fewer matched keywords is never returned in place of
\* one with more, whatever the refined scores are.
C1_GreatestRawMatches == pc = "done" => HasGreatestRaw(Tally, cluster)

FewerButHigherScore(t, name) ==
    \E i, j \in DOMAIN t :
        /\ t[i].name = name
        /\ t[j].raw > 0 /\ t[j].raw < t[i].raw /\ t[j].score > t[i].score

\* C1 witness: the returned cluster has more matches and a lower refined
\* score than another matched cluster.
C1_Witness == pc = "done" /\ FewerButHigherScore(Tally, cluster)

\* the first cluster in catalog order among those with the highest refined
\* score among those with the maximal raw_matches
FirstBest(t) ==
    LET best == {i \in Top(t) : \A j \in Top(t) : t[j].score <= t[i].score}
    IN t[CHOOSE i \in best : \A j \in best : i <= j].name

\* C2: among the clusters with maximal raw_matches the one with the highest
\* refined score is returned, and among those equal in both the first in
\* catalog order.
C2_TieBreak == pc = "done" /\ cluster # None => FirstBest(Tally) = cluster

ScoreThenOrder(t, name) ==
    \E i, j, k \in Top(t) :
        /\ t[j].name = name
        /\ i < j /\ t[i].score < t[j].score
        /\ j < k /\ t[k].score = t[j].score

\* C2 witness: three clusters share the maximal raw_matches; the first in
\* catalog order loses on the refined score and the other two are equal in
\* both, so catalog order decides between them.
C2_Witness == pc = "done" /\ ScoreThenOrder(Tally, cluster)

\* the clusters with a keyword that occurs in the query text as given
\* (letter case aside)
ClustersNamedIn(q) ==
    {i \in 1..Len_clusters :
        \E k \in Range(use_case_clusters[i].keywords) :
            Contains(Lower(q), keyword_lower[k])}

\* C3: a query that contains a keyword of exactly one cluster is classified
\* to that cluster (normalization never destroys the keyword).
C3_ExactKeywordClassifies ==
    pc = "done" =>
        \A i \in 1..Len_clusters :
            ClustersNamedIn(query) = {i} => cluster = use_case_clusters[i].name

NoMatch(t) == \A i \in DOMAIN t : t[i].raw = 0

\* C4: None is returned exactly when no keyword of any cluster occurs in the
\* normalized query.
C4_NoneIffNoMatch == pc = "done" => ((cluster = None) <=> NoMatch(Tally))

OnlyPenalised(t, name) ==
    \E i \in DOMAIN t :
        /\ t[i].name = name /\ t[i].raw = 1 /\ t[i].score < 10
        /\ \A j \in DOMAIN t : j # i => t[j].raw = 0

\* C4 witness: the only matched keyword is a penalised one, the refined
\* score is below 1, and the cluster is returned all the same.
C4_Witness == pc = "done" /\ OnlyPenalised(Tally, cluster)

(***************************************************************************)
(* _extract_markdown_section(content, section_header).                     *)
(***************************************************************************)
\* re.sub(open [^close]+ close, '', s) for one-character delimiters: the
\* leftmost opener followed by at least one character and then the nearest
\* closer is removed, and the scan goes on after the closer.
RECURSIVE RemoveDelimited(_, _, _)
RemoveDelimited(s, open, close) ==
    LET i == Find(s, open)
        rest == From(s, i + 1)
        j == Find(rest, close)
    IN IF i = 0 \/ j = 0 THEN s
       ELSE IF j = 1 THEN SubSeq(s, 1, i) \o RemoveDelimited(rest, open, close)
       ELSE SubSeq(s, 1, i - 1) \o RemoveDelimited(From(rest, j + 1), open, close)

\* number of leading whitespace characters of s
SpaceRun(s) == Len(s) - Len(LStrip(s))

\* re.sub(r'import\s+.*', '', s): "import", the whitespace after it (line
\* ends included) and the rest of the line where that whitespace ends
RECURSIVE RemoveImports(_)
RemoveImports(s) ==
    LET i == Find(s, "import")
        after == From(s, i + 6)
        n == SpaceRun(after)
        tail == From(after, n + 1)
        eol == Find(tail, "\n")
    IN IF i = 0 THEN s
       ELSE IF n = 0 THEN SubSeq(s, 1, i + 5) \o RemoveImports(after)
       ELSE IF eol = 0 THEN SubSeq(s, 1, i - 1)
       ELSE SubSeq(s, 1, i - 1) \o RemoveImports(From(tail, eol))

\* the three substitutions that remove MDX/JSX components
CleanSection(text) ==
    RemoveImports(RemoveDelimited(RemoveDelimited(text, "<", ">"), "{", "}"))

\* mutant: the '---' divider does not end a section
BoundaryTextNoDivider(t) == StartsWith(t, "## ") \/ StartsWith(t, "# ")

\* the test that ends a section, on the trimmed line: a '## ' header, a
\* '---' divider, a '# ' header
BoundaryText(t) ==
    StartsWith(t, "## ") \/ StartsWith(t, "---") \/ StartsWith(t, "# ")

IsBoundary(line) == BoundaryText(Strip(line))

\* the first loop: index of the first line that starts with the header, 0 if none
RECURSIVE FindStart(_, _, _)
FindStart(lines, section_header, i) ==
    IF i > Len(lines) THEN 0
    ELSE IF StartsWith(Strip(lines[i]), section_header) THEN i
    ELSE FindStart(lines, section_header, i + 1)

\* the second loop: index of the first boundary line from i on, len(lines)+1 if none
RECURSIVE FindEnd(_, _)
FindEnd(lines, i) ==
    IF i > Len(lines) THEN Len(lines) + 1
    ELSE IF IsBoundary(lines[i]) THEN i
    ELSE FindEnd(lines, i + 1)

SectionOfLines(lines, section_header) ==
    LET start_idx == FindStart(lines, section_header, 1)
        end_idx == FindEnd(lines, start_idx + 1)
    IN IF start_idx = 0 THEN ""
       ELSE CleanSection(Strip(Join(SubSeq(lines, start_idx + 1, end_idx - 1), "\n")))

extract_markdown_section(text, section_header) ==
    SectionOfLines(SplitOn(text, "\n"), section_header)

(***************************************************************************)
(* Documents: up to MaxLines lines of LineChoices, joined by line ends.    *)
(* The lines are headers (one indented and longer than the header asked    *)
(* for), the three kinds of boundary, prose, a blank line, a boundary      *)
(* behind a tag and a line with a brace expression and an import.          *)
(***************************************************************************)
MaxLines == 3

LineChoices ==
    {"## Overview", " ## Overview 2", "### Sub", "# T", "---", "text", "",
     "<b>## X", "see {y} import x"}

Documents ==
    {Join(ls, "\n") : ls \in UNION {[1..n -> LineChoices] : n \in 1..MaxLines}}

Headers == {"## Overview", "### Sub"}

InitSection ==
    /\ pc = "start"
    /\ content \in Documents
    /\ header \in Headers
    /\ section = None
    /\ IdleIntent /\ IdleStore /\ IdleGuide /\ IdleSchema /\ IdleExample /\ IdleSearch /\ IdleTasks /\ IdleServer /\ IdleCalc

\* RampKnowledgeBase._extract_markdown_section(content, section_header)
ExtractSection ==
    /\ pc = "start"
    /\ section' = extract_markdown_section(content, header)
    /\ pc' = "done"
    /\ UNCHANGED <<calcVars, serverVars, taskVars, searchVars, exampleVars, content, header, intentVars, storeVars, guideVars, schemaVars>>

NextSection == ExtractSection

SpecSection == InitSection /\ [][NextSection]_vars

(***************************************************************************)
(* Claims about _extract_markdown_section (SpecSection).                   *)
(***************************************************************************)
\* a line that, trimmed, starts with '## ', '# ' or '---'
BoundaryLine(line) ==
    \E b \in {"## ", "# ", "---"} : StartsWith(Strip(line), b)

HeaderLines(lines, h) == {i \in DOMAIN lines : StartsWith(Strip(lines[i]), h)}

FirstOf(S) == CHOOSE i \in S : \A j \in S : i <= j

\* the lines strictly between the first header line and the next boundary
\* line after it (or the end of the document)
Between(lines, h) ==
    LET a == FirstOf(HeaderLines(lines, h))
        B == {i \in DOMAIN lines : i > a /\ BoundaryLine(lines[i])}
        b == IF B = {} THEN Len(lines) + 1 ELSE FirstOf(B)
    IN SubSeq(lines, a + 1, b - 1)

ExactlyBetween(lines, h, result) ==
    IF HeaderLines(lines, h) = {} THEN result = ""
    ELSE /\ result = Join(Between(lines, h), "\n")
         /\ \A l \in Range(SplitOn(result, "\n")) : ~BoundaryLine(l)

\* C7 as claimed: the result is empty when no line starts with the header,
\* and otherwise exactly the text of the lines strictly between the first
\* header line and the next boundary, none of its lines being a boundary.
C7_ExactlyBetween ==
    pc = "done" => ExactlyBetween(SplitOn(content, "\n"), header, section)

CleanedBetween(lines, h, result) ==
    IF HeaderLines(lines, h) = {} THEN result = ""
    ELSE /\ result = CleanSection(Strip(Join(Between(lines, h), "\n")))
         /\ \A l \in Range(Between(lines, h)) : ~BoundaryLine(l)

\* C7 amended: the result is empty when no line starts with the header, and
\* otherwise the text of the lines strictly between the first header line
\* and the next boundary, trimmed of surrounding whitespace and with tags,
\* brace expressions and import directives removed; no line between the two
\* is a boundary and later occurrences of the header are ignored.
C7_CleanedBetween ==
    pc = "done" => CleanedBetween(SplitOn(content, "\n"), header, section)

\* C7 witness: the header occurs twice with a boundary after the first
\* occurrence, and the section extracted is not empty.
C7_Witness ==
    /\ pc = "done"
    /\ section # ""
    /\ LET lines == SplitOn(content, "\n")
       IN /\ Cardinality(HeaderLines(lines, header)) = 2
          /\ Len(Between(lines, header)) < Len(lines) - FirstOf(HeaderLines(lines, header))

(***************************************************************************)
(* The guide store.  `files` is the directory data/developer-api on disk,  *)
(* `guides` the store _load_guides built from it at startup.               *)
(***************************************************************************)
GuideFiles == <<"authorization.mdx", "guides/bill-pay.mdx">>

GuideRoot == "data/developer-api/"

\* '#'s and blanks removed from the front of a heading line
RECURSIVE HeadingText(_)
HeadingText(line) ==
    IF StartsWith(line, "#") THEN HeadingText(From(line, 2)) ELSE Strip(line)

\* one line of markdown rendered to HTML with the tags removed: a heading
\* keeps its text, a divider becomes an empty <hr />, prose stays
PlainLine(line) ==
    IF StartsWith(line, "#") THEN HeadingText(line)
    ELSE IF Strip(line) = "---" THEN ""
    ELSE line

RECURSIVE PlainLines(_)
PlainLines(lines) ==
    IF lines = <<>> THEN <<>> ELSE <<PlainLine(lines[1])>> \o PlainLines(Tail(lines))

\* re.sub(r"<[^>]+>", "", markdown.markdown(post.content))
PlainText(raw) ==
    RemoveDelimited(Join(PlainLines(SplitOn(raw, "\n")), "\n"), "<", ">")

\* a file that cannot be opened or decoded: open or f.read raises
Unreadable == "<unreadable>"

\* a front matter boundary line of python-frontmatter: ^-{3,}\s*$, for the
\* three dashes the documents here use
IsFrontMatterBoundary(line) == RStrip(line) = "---"

\* the index of the first boundary line after the first line, 0 when none
ClosingBoundary(lines) ==
    LET later == {i \in 2..Len(lines) : IsFrontMatterBoundary(lines[i])}
    IN IF later = {} THEN 0 ELSE CHOOSE i \in later : \A j \in later : i <= j

\* yaml.load raises on a flow sequence that is never closed
YamlRaises(lines) == \E i \in DOMAIN lines : Contains(lines[i], "[") /\ ~Contains(lines[i], "]")

\* frontmatter.load(f).content: the text after a front matter block, the whole
\* text when there is no block; None when reading or the YAML parser raises
PostContent(raw) ==
    IF raw = Unreadable THEN None
    ELSE LET text == Strip(raw)
             lines == SplitOn(text, "\n")
             closing == ClosingBoundary(lines)
         IN IF ~IsFrontMatterBoundary(lines[1]) \/ closing = 0 THEN text
            ELSE IF YamlRaises(SubSeq(lines, 2, closing - 1)) THEN None
            ELSE Strip(Join(SubSeq(lines, closing + 1, Len(lines)), "\n"))

\* the body of the loop of _load_guides for one file: the entry it stores,
\* nothing when the except branch is taken
LoadedEntry(disk, file) ==
    IF PostContent(disk[file]) = None THEN <<>>
    ELSE <<[path |-> GuideRoot \o file, content |-> PlainText(PostContent(disk[file]))]>>

\* _load_guides: one entry per file found, keyed by its path relative to
\* the project root
RECURSIVE LoadFrom(_, _)
LoadFrom(disk, i) ==
    IF i > Len(GuideFiles) THEN <<>>
    ELSE (IF disk[GuideFiles[i]] = NoFile THEN <<>> ELSE LoadedEntry(disk, GuideFiles[i]))
         \o LoadFrom(disk, i + 1)

load_guides(disk) == LoadFrom(disk, 1)

\* the fallback loop of _find_guide_by_filename over the loaded guides
RECURSIVE FindLoaded(_, _, _)
FindLoaded(store, filename, i) ==
    IF i > Len(store) THEN None
    ELSE IF Contains(store[i].path, filename) THEN store[i].content
    ELSE FindLoaded(store, filename, i + 1)

\* _find_guide_by_filename: the file on disk when it exists, else the
\* first loaded guide whose path contains the filename, else None
find_guide_by_filename(disk, store, filename) ==
    IF filename \in DOMAIN disk /\ disk[filename] \notin {NoFile, Unreadable} THEN disk[filename]
    ELSE FindLoaded(store, filename, 1)

(***************************************************************************)
(* _extract_key_sections_from_guide(guide_content, cluster).               *)
(***************************************************************************)
\* (the source writes code in "Exchange the code" between backquotes, which a
\* string of this module cannot hold; apostrophes stand for them)
oauth_sections ==
    <<"## Understanding environments",
      "## Quickstart: Authorize with Client Credentials",
      "### 1. Create a Developer App",
      "### 2. Request an Access Token",
      "### 3. Make an API Call",
      "## FAQ: Client credentials flow",
      "## Authorization code: For multi-customer apps",
      "### Step 1: User is redirected to Ramp authorization URL",
      "### Step 2: User authenticates and approves access",
      "### Step 3: Exchange the 'code' for an access token",
      "### Step 4: Refresh the access token",
      "## FAQ: Authorization code flow",
      "## Next steps",
      "## OAuth 2.0 Framework",
      "## Permission Model & Scopes",
      "## Token Management",
      "## Authorization Flow Deep Dive",
      "### Client Credentials Flow",
      "### Authorization Code Flow">>

common_sections ==
    <<"## Overview", "## Getting Started", "## Quick Start", "## Implementation",
      "## Best Practices", "## Common Pitfalls", "## Examples", "## Next Steps",
      "## How It Works", "## How to Get Started", "## Key Features",
      "## Example Use Cases", "## Why Use", "## Sample Code">>

OAuthSectionCap == 1200
CommonSectionCap == 1000

\* mutant: the section is appended whole
RECURSIVE GuideSectionsUncut(_, _, _, _)
GuideSectionsUncut(lines, headers, cap, i) ==
    IF i > Len(headers) THEN <<>>
    ELSE LET section_content == SectionOfLines(lines, headers[i])
         IN (IF section_content = "" THEN <<>>
             ELSE <<[title |-> Replace(Replace(headers[i], "### ", ""), "## ", ""),
                     content |-> section_content]>>)
            \o GuideSectionsUncut(lines, headers, cap, i + 1)

\* one iteration of either loop: the section, capped, when it is not empty
RECURSIVE GuideSections(_, _, _, _)
GuideSections(lines, headers, cap, i) ==
    IF i > Len(headers) THEN <<>>
    ELSE LET section_content == SectionOfLines(lines, headers[i])
         IN (IF section_content = "" THEN <<>>
             ELSE <<[title |-> Replace(Replace(headers[i], "### ", ""), "## ", ""),
                     content |-> Prefix(section_content, cap)]>>)
            \o GuideSections(lines, headers, cap, i + 1)

extract_key_sections_from_guide(guide_content, name) ==
    IF name = "authentication"
    THEN GuideSections(SplitOn(guide_content, "\n"), oauth_sections, OAuthSectionCap, 1)
    ELSE GuideSections(SplitOn(guide_content, "\n"), common_sections, CommonSectionCap, 1)

(***************************************************************************)
(* The guidance formatter.  The fixed texts are the source's, without the  *)
(* pictographs of three headings and with apostrophes for backquotes.      *)
(***************************************************************************)
cluster_titles ==
    [ap_workflow |-> "Accounts Payable & Bill Management",
     erp_integration |-> "ERP/Accounting Integration",
     card_management |-> "Card Management & Spending Controls",
     user_management |-> "User Management & Onboarding",
     expense_reporting |-> "Expense Reporting & Analytics",
     agents |-> "AI Agents & MCP Integration",
     webhooks |-> "Webhooks & Real-Time Events",
     authentication |-> "Authentication & Authorization"]

\* cluster_titles.get(cluster, 'Ramp API Integration')
ClusterTitle(name) ==
    IF name \in DOMAIN cluster_titles THEN cluster_titles[name]
    ELSE "Ramp API Integration"

GeneralHead ==
    "# General Integration Guidance\n"
    \o "\n"
    \o "**Use Case**: "

GeneralTail ==
    "\n"
    \o "\n"
    \o "##  Approach\n"
    \o "\n"
    \o "Since we couldn't match your use case to a specific "
    \o "workflow, here's a general approach:\n"
    \o "\n"
    \o "1. **Identify the data you need** - What Ramp data do you "
    \o "want to access?\n"
    \o "2. **Check available APIs** - Review endpoints at "
    \o "developer.ramp.com\n"
    \o "3. **Start with authentication** - Use 'get_started' tool "
    \o "for setup help\n"
    \o "4. **Test in sandbox** - Always use demo-api.ramp.com first\n"
    \o "5. **Validate your code** - Use 'validate_endpoint_usage' "
    \o "to check your API implementation\n"
    \o "\n"
    \o "##  Common Use Cases\n"
    \o "\n"
    \o "Try these keywords with 'explore_use_case' for specific "
    \o "guidance:\n"
    \o "- \"bill payments\" or \"accounts payable\"\n"
    \o "- \"quickbooks sync\" or \"accounting integration\"  \n"
    \o "- \"card issuing\" or \"spending limits\"\n"
    \o "- \"user management\" or \"employee onboarding\"\n"
    \o "- \"expense reporting\" or \"analytics\"\n"
    \o "- \"webhooks\" or \"real-time events\"\n"
    \o "- \"ai integration\" or \"mcp server\"\n"
    \o "\n"
    \o "##  Next Steps\n"
    \o "\n"
    \o "1. Use 'search_documentation' to find implementation "
    \o "guidance\n"
    \o "2. Use 'validate_endpoint_usage' to check your code\n"
    \o "3. Use 'submit_feedback' to request guidance for your "
    \o "specific use case or submit a feature request\n"
    \o "\n"
    \o "*This is general guidance. For specific workflows, use more "
    \o "targeted keywords.*\n"

GuideTitleMark == "# "

GuideUseCaseMark ==
    " Workflow\n"
    \o "\n"
    \o "**Use Case**: "

GuideIntro ==
    "\n"
    \o "\n"
    \o "*This guidance is extracted from Ramp's developer "
    \o "documentation and updated automatically.*\n"
    \o "\n"

GuideFooter ==
    "---\n"
    \o "\n"
    \o "## IMPORTANT\n"
    \o "\n"
    \o "- **Always validate code samples**: Use "
    \o "'validate_endpoint_usage' to validate any code you write. "
    \o "This will ensure all endpoints, query parameters, and "
    \o "conventions used are actually available in the OpenAPI "
    \o "specification \n"
    \o "- **Search documentation**: Use 'search_documentation' for "
    \o "implementation guidance\n"
    \o "- **Submit feedback**: Use 'submit_feedback' to report "
    \o "issues or suggest improvements\n"
    \o "\n"
    \o "*This guide is automatically generated from the latest Ramp "
    \o "developer documentation.*\n"

\* the loop of _format_extracted_guidance over the sections
RECURSIVE SectionsText(_)
SectionsText(secs) ==
    IF secs = <<>> THEN ""
    ELSE "## " \o secs[1].title \o "\n\n" \o secs[1].content \o "\n\n"
         \o SectionsText(Tail(secs))

\* the warnings of a cluster, one per line
RECURSIVE WarningsText(_)
WarningsText(ws) ==
    IF ws = <<>> THEN "" ELSE ws[1] \o "\n\n" \o WarningsText(Tail(ws))

\* mutant: the cluster's warnings are emitted after the sections
FormatWithWarnings(secs, use_case, name) ==
    GuideTitleMark \o ClusterTitle(name) \o GuideUseCaseMark \o use_case
    \o GuideIntro \o SectionsText(secs)
    \o WarningsText(ClusterData(name).warnings) \o GuideFooter

format_extracted_guidance(secs, use_case, name) ==
    GuideTitleMark \o ClusterTitle(name) \o GuideUseCaseMark \o use_case
    \o GuideIntro \o SectionsText(secs) \o GuideFooter

extract_general_guidance(use_case) == GeneralHead \o use_case \o GeneralTail

\* the sections _extract_guidance_from_markdown collects: those of the
\* first guide of the list, when that guide is found and not empty
extracted_sections(disk, store, guide_filenames, name) ==
    LET found == IF guide_filenames = <<>> THEN None
                 ELSE find_guide_by_filename(disk, store, guide_filenames[1])
    IN IF found \in {None, ""} THEN <<>>
       ELSE extract_key_sections_from_guide(found, name)

\* mutant: an empty section list is formatted like any other
GuidanceTextNoFallback(secs, use_case, name) ==
    format_extracted_guidance(secs, use_case, name)

\* the end of _extract_guidance_from_markdown
guidance_text(secs, use_case, name) ==
    IF secs = <<>> THEN extract_general_guidance(use_case)
    ELSE format_extracted_guidance(secs, use_case, name)

(***************************************************************************)
(* SearchDocumentationTool._extract_key_sections(content, cluster, query). *)
(***************************************************************************)
important_headers ==
    <<"## Overview", "## Getting Started", "## Quick Start", "## Quickstart",
      "## How to Get Started", "## Implementation", "## Examples",
      "## Best Practices", "## Authentication", "## Authorization">>

authentication_headers ==
    <<"## Understanding environments",
      "## Quickstart: Authorize with Client Credentials",
      "## Authorization code: For multi-customer apps",
      "## OAuth 2.0 Framework">>

ap_workflow_headers ==
    <<"## Bill Pay API", "## Vendor Management", "## Payment Processing">>

HeadersFor(name) ==
    important_headers
    \o (IF name = "authentication" THEN authentication_headers
        ELSE IF name = "ap_workflow" THEN ap_workflow_headers
        ELSE <<>>)

MinSectionLen == 50

\* the first loop: the named sections longer than 50 characters, whole
RECURSIVE NamedSections(_, _, _)
NamedSections(lines, headers, i) ==
    IF i > Len(headers) THEN <<>>
    ELSE LET section_content == Strip(SectionOfLines(lines, headers[i]))
         IN (IF Len(section_content) > MinSectionLen
             THEN <<[title |-> Replace(headers[i], "## ", ""),
                     content |-> section_content]>>
             ELSE <<>>)
            \o NamedSections(lines, headers, i + 1)

\* mutant: a block of exactly 50 characters is kept
ClosedSectionAtLeast(current_section, current_content) ==
    LET content_text == Strip(Join(current_content, "\n"))
    IN IF current_section # "" /\ current_content # <<>>
          /\ Len(content_text) >= MinSectionLen
       THEN <<[title |-> current_section, content |-> content_text]>>
       ELSE <<>>

\* the section the fallback loop closes at a '## ' line or at the end
ClosedSection(current_section, current_content) ==
    LET content_text == Strip(Join(current_content, "\n"))
    IN IF current_section # "" /\ current_content # <<>>
          /\ Len(content_text) > MinSectionLen
       THEN <<[title |-> current_section, content |-> content_text]>>
       ELSE <<>>

\* the fallback loop over the lines; current_section is "" for None
RECURSIVE HeadingSplit(_, _, _, _)
HeadingSplit(lines, i, current_section, current_content) ==
    IF i > Len(lines) THEN ClosedSection(current_section, current_content)
    ELSE IF StartsWith(Strip(lines[i]), "## ")
    THEN ClosedSection(current_section, current_content)
         \o HeadingSplit(lines, i + 1, Replace(Strip(lines[i]), "## ", ""), <<>>)
    ELSE HeadingSplit(lines, i + 1, current_section,
                      IF current_section # "" THEN Append(current_content, lines[i])
                      ELSE current_content)

OrHeadingSplit(named, lines) ==
    IF named # <<>> THEN named ELSE HeadingSplit(lines, 1, "", <<>>)

extract_key_sections(text, name) ==
    OrHeadingSplit(NamedSections(SplitOn(text, "\n"), HeadersFor(name), 1),
                   SplitOn(text, "\n"))

(***************************************************************************)
(* The guidance path and the section list of the search path.              *)
(*                                                                         *)
(* One guide file is on disk at startup; the sections of a sectioned guide *)
(* are shorter than, as long as or up to MaxOver characters longer than    *)
(* the two caps.                                                           *)
(***************************************************************************)
MaxOver == 1

\* s repeated n times
RECURSIVE Repeat(_, _)
Repeat(s, n) ==
    IF n = 0 THEN ""
    ELSE IF n % 2 = 1 THEN s \o Repeat(s \o s, n \div 2)
    ELSE Repeat(s \o s, n \div 2)

\* n characters of prose
Body(n) == "a" \o Repeat("x", n - 2) \o "z"

BodyLengths ==
    {60} \cup {cap + k : cap \in {CommonSectionCap, OAuthSectionCap}, k \in 0..MaxOver}

\* a guide with a section of the authentication list and one of the common list
SectionedDoc(n) ==
    "## Understanding environments\n" \o Body(n) \o "\n## Overview\n" \o Body(n)

\* the first warning of the authentication cluster
CorsWarning == ClusterData("authentication").warnings[1]

\* the sectioned guides; a guide without headings of either list, one with
\* no '## ' heading, one whose only named section is empty, one whose
\* section quotes the warning, and an empty file
GuideDocs ==
    {SectionedDoc(n) : n \in BodyLengths}
    \cup {"## Custom topic\n" \o Body(60) \o "\n## Other\nshort",
          "# Title\nintro", "## Overview\n\n## Next",
          "## Understanding environments\n" \o CorsWarning, ""}

Disks ==
    {[g \in Range(GuideFiles) |-> IF g = f THEN d ELSE NoFile] :
        f \in Range(GuideFiles), d \in GuideDocs \cup {NoFile}}

UseCases == {"how do I set up OAuth", "bills", "users", "hello"}

InitGuidance ==
    /\ pc = "start"
    /\ query \in UseCases
    /\ cluster = None
    /\ files \in Disks
    /\ guides = load_guides(files)
    /\ IdleGuide /\ IdleExtract /\ IdleSchema /\ IdleExample /\ IdleSearch /\ IdleTasks /\ IdleServer /\ IdleCalc

\* a guide file is deleted after startup
RemoveFile ==
    /\ pc = "start"
    /\ \E f \in DOMAIN files :
          /\ files[f] # NoFile
          /\ files' = [files EXCEPT ![f] = NoFile]
    /\ UNCHANGED <<calcVars, serverVars, taskVars, searchVars, exampleVars, pc, intentVars, guides, guideVars, extractVars, schemaVars>>

\* RampKnowledgeBase.get_workflow_guidance(use_case)
GetWorkflowGuidance ==
    /\ pc = "start"
    /\ cluster' = detect_intent(Lower(query))
    /\ sections' =
          IF cluster' = None THEN <<>>
          ELSE extracted_sections(files, guides, ClusterData(cluster').guides, cluster')
    /\ guidance' = guidance_text(sections', query, cluster')
    /\ pc' = "guidance"
    /\ UNCHANGED <<calcVars, serverVars, taskVars, searchVars, exampleVars, query, storeVars, extractVars, schemaVars>>

\* SearchDocumentationTool.execute up to the section list, for a query
\* whose cluster's guide is found: it is then the only relevant guide, and
\* _extract_relevant_content passes its text to _extract_key_sections
SearchKeySections ==
    /\ pc = "start"
    /\ cluster' = detect_intent(Strip(query))
    /\ cluster' # None
    /\ ClusterData(cluster').guides # <<>>
    /\ content' = find_guide_by_filename(files, guides, ClusterData(cluster').guides[1])
    /\ content' \notin {None, ""}
    /\ sections' = extract_key_sections(content', cluster')
    /\ pc' = "search"
    /\ UNCHANGED <<calcVars, serverVars, taskVars, searchVars, exampleVars, query, storeVars, guidance, header, section, schemaVars>>

NextGuidance == RemoveFile \/ GetWorkflowGuidance \/ SearchKeySections

SpecGuidance == InitGuidance /\ [][NextGuidance]_vars

(***************************************************************************)
(* Claims about get_workflow_guidance and the section caps (SpecGuidance). *)
(***************************************************************************)
\* the header list and the cap _extract_key_sections_from_guide uses
NamedHeaders(name) == IF name = "authentication" THEN oauth_sections ELSE common_sections

CapOf(name) == IF name = "authentication" THEN OAuthSectionCap ELSE CommonSectionCap

TitleOf(h) == Replace(Replace(h, "### ", ""), "## ", "")

\* the text of the first guide of a cluster, None when it has no guide or
\* the guide is neither on disk nor in the store
FirstGuideText(name) ==
    IF ClusterData(name).guides = <<>> THEN None
    ELSE find_guide_by_filename(files, guides, ClusterData(name).guides[1])

AuthenticationGuide ==
    /\ pc = "guidance"
    /\ cluster = "authentication"
    /\ sections # <<>>

\* C5 as claimed: for a query classified as authentication whose guide
\* yields a section, the guidance contains the authentication title and the
\* CORS warning of the authentication cluster.
C5_TitleAndWarning ==
    AuthenticationGuide =>
        /\ Contains(guidance, ClusterTitle("authentication"))
        /\ Contains(guidance, CorsWarning)

InSomeSection(secs, w) == \E i \in DOMAIN secs : Contains(secs[i].content, w)

\* C5 amended: for a query classified as authentication whose guide yields
\* a section, the guidance opens with the authentication title line, and
\* it contains the CORS warning only when the use case or a section
\* extracted from the guide contains it: the formatter adds no warning.
C5_TitleWithoutWarning ==
    AuthenticationGuide =>
        /\ StartsWith(guidance, "# Authentication & Authorization Workflow\n")
        /\ Contains(guidance, CorsWarning) =>
              Contains(query, CorsWarning) \/ InSomeSection(sections, CorsWarning)

\* C5 witness: the OAuth question is classified as authentication, its
\* guide yields a section, and the guidance does not contain the warning.
C5_Witness ==
    /\ AuthenticationGuide
    /\ query = "how do I set up OAuth"
    /\ Contains(guidance, "## Understanding environments\n")
    /\ ~Contains(guidance, CorsWarning)

\* no header of the list has a non-empty section in the text
NoNamedSection(text, headers) ==
    \A h \in Range(headers) : extract_markdown_section(text, h) = ""

GenericCase(name) ==
    \/ name = None
    \/ ClusterData(name).guides = <<>>
    \/ FirstGuideText(name) = None
    \/ NoNamedSection(FirstGuideText(name), NamedHeaders(name))

\* every section is a named section of the text and is rendered in the guide
BuiltFrom(text, secs, headers, guide) ==
    \A i \in DOMAIN secs :
        /\ \E h \in Range(headers) :
              /\ TitleOf(h) = secs[i].title
              /\ extract_markdown_section(text, h) # ""
        /\ Contains(guide, "## " \o secs[i].title \o "\n\n" \o secs[i].content \o "\n\n")

\* C6: get_workflow_guidance returns the generic guidance exactly when no
\* cluster is detected, the cluster has no guide, its first guide cannot be
\* found, or no named section (a header of the cluster's list with text
\* under it) is found in that guide; otherwise it returns the guide titled
\* for the cluster, built from the sections of the first guide.
C6_GenericCases ==
    pc = "guidance" =>
        IF GenericCase(cluster)
        THEN /\ guidance = extract_general_guidance(query)
             /\ StartsWith(guidance, "# General Integration Guidance\n")
        ELSE /\ StartsWith(guidance, "# " \o ClusterTitle(cluster) \o " Workflow\n")
             /\ sections # <<>>
             /\ BuiltFrom(FirstGuideText(cluster), sections, NamedHeaders(cluster), guidance)

\* C6 witness: a cluster is detected and its guide is found with text under
\* a heading, but under no heading of the cluster's list, and the generic
\* guidance is returned.
C6_Witness ==
    /\ pc = "guidance"
    /\ cluster # None
    /\ FirstGuideText(cluster) \notin {None, ""}
    /\ Contains(FirstGuideText(cluster), "## Custom topic\n")
    /\ StartsWith(guidance, "# General Integration Guidance\n")

AtMost(secs, cap) == \A i \in DOMAIN secs : Len(secs[i].content) <= cap

\* C8 as claimed: the sections of the guidance path are at most 1200
\* (authentication) or 1000 characters long, and the sections of the search
\* path are bounded by a fixed maximum likewise.
C8_EverySectionCapped ==
    /\ pc = "guidance" => AtMost(sections, CapOf(cluster))
    /\ pc = "search" => AtMost(sections, OAuthSectionCap)

\* the section is the first cap characters of the text extracted for a header
CutOf(text, sec, headers, cap) ==
    \E h \in Range(headers) :
        /\ TitleOf(h) = sec.title
        /\ Len(extract_markdown_section(text, h)) <= cap
              => sec.content = extract_markdown_section(text, h)
        /\ Len(extract_markdown_section(text, h)) > cap
              => sec.content = SubSeq(extract_markdown_section(text, h), 1, cap)

\* the lines after the first '## title' line up to the next '## ' line
UnderHeading(lines, title) ==
    LET a == FirstOf({i \in DOMAIN lines : Strip(lines[i]) = "## " \o title})
        B == {i \in DOMAIN lines : i > a /\ StartsWith(Strip(lines[i]), "## ")}
        b == IF B = {} THEN Len(lines) + 1 ELSE FirstOf(B)
    IN Strip(Join(SubSeq(lines, a + 1, b - 1), "\n"))

\* the section is the whole text under its heading, trimmed
WholeOf(text, sec) ==
    \/ sec.content = Strip(extract_markdown_section(text, "## " \o sec.title))
    \/ /\ \E l \in Range(SplitOn(text, "\n")) : Strip(l) = "## " \o sec.title
       /\ sec.content = UnderHeading(SplitOn(text, "\n"), sec.title)

\* C8 amended: on the guidance path every section is the extracted text cut
\* to its first 1200 (authentication) or 1000 (other clusters) characters;
\* on the search path _extract_key_sections does not cut: every section is
\* the whole text under its heading, whatever its length.
C8_GuidanceSectionsCapped ==
    /\ pc = "guidance" =>
          /\ AtMost(sections, CapOf(cluster))
          /\ \A i \in DOMAIN sections :
                CutOf(FirstGuideText(cluster), sections[i],
                      NamedHeaders(cluster), CapOf(cluster))
    /\ pc = "search" =>
          \A i \in DOMAIN sections : WholeOf(content, sections[i])

\* C8 witness: a section of the guidance is shorter than the text extracted
\* for it, which was cut at the cap.
C8_Witness ==
    /\ pc = "guidance"
    /\ \E i \in DOMAIN sections :
          /\ Len(sections[i].content) = CapOf(cluster)
          /\ \E h \in Range(NamedHeaders(cluster)) :
                /\ TitleOf(h) = sections[i].title
                /\ Len(extract_markdown_section(FirstGuideText(cluster), h)) > CapOf(cluster)

(***************************************************************************)
(* GetEndpointSchemaTool: the endpoint index and the lookup.               *)
(*                                                                         *)
(* An operation of the OpenAPI document is kept by its operationId; the    *)
(* index is a dict, kept here as the sequence of its values in insertion   *)
(* order.                                                                  *)
(***************************************************************************)
HttpMethods == {"GET", "POST", "PUT", "DELETE", "PATCH"}

\* endpoints[key] = entry: a new key goes to the end, a key already there
\* keeps its place and gets the new value
Put(index, entry) ==
    IF \E i \in DOMAIN index : index[i].key = entry.key
    THEN [index EXCEPT ![CHOOSE i \in DOMAIN index : index[i].key = entry.key] = entry]
    ELSE Append(index, entry)

\* the inner loop of _extract_all_endpoints over the keys of one path
RECURSIVE PutMethods(_, _, _, _)
PutMethods(index, path, methods, j) ==
    IF j > Len(methods) THEN index
    ELSE PutMethods(
            IF Upper(methods[j].key) \in HttpMethods
            THEN Put(index, [key |-> Upper(methods[j].key) \o " " \o path,
                             path |-> path,
                             method |-> Upper(methods[j].key),
                             details |-> methods[j].details])
            ELSE index,
            path, methods, j + 1)

\* the outer loop over the paths of the document
RECURSIVE PutPaths(_, _, _)
PutPaths(index, doc, i) ==
    IF i > Len(doc) THEN index
    ELSE PutPaths(PutMethods(index, doc[i].path, doc[i].methods, 1), doc, i + 1)

extract_all_endpoints(doc) == PutPaths(<<>>, doc, 1)

\* the first loop of _find_matching_endpoints
RECURSIVE ExactMatches(_, _, _, _)
ExactMatches(index, path, http_method, i) ==
    IF i > Len(index) THEN <<>>
    ELSE (IF index[i].path = path /\ (http_method = None \/ index[i].method = http_method)
          THEN <<index[i]>> ELSE <<>>)
         \o ExactMatches(index, path, http_method, i + 1)

method_priority == <<"GET", "POST", "PUT", "PATCH", "DELETE">>

\* the inner loop of the priority search: the first entry of the path with
\* the method
RECURSIVE FirstWithMethod(_, _, _, _)
FirstWithMethod(index, path, prio_method, i) ==
    IF i > Len(index) THEN <<>>
    ELSE IF index[i].path = path /\ index[i].method = prio_method THEN <<index[i]>>
    ELSE FirstWithMethod(index, path, prio_method, i + 1)

\* the priority search: the methods in priority order, until one matches
RECURSIVE PriorityMatch(_, _, _)
PriorityMatch(index, path, k) ==
    IF k > Len(method_priority) THEN <<>>
    ELSE IF FirstWithMethod(index, path, method_priority[k], 1) # <<>>
    THEN FirstWithMethod(index, path, method_priority[k], 1)
    ELSE PriorityMatch(index, path, k + 1)

OrPriorityMatch(exact, index, path, http_method) ==
    IF exact = <<>> /\ http_method = None THEN PriorityMatch(index, path, 1)
    ELSE exact

\* mutant: the method asked for is not compared
FindMatchingAnyMethod(index, path, http_method) ==
    OrPriorityMatch(ExactMatches(index, path, None, 1), index, path, http_method)

find_matching_endpoints(index, path, http_method) ==
    OrPriorityMatch(ExactMatches(index, path, http_method, 1), index, path, http_method)

\* the non-empty parts of endpoint.lower().split('/')
Parts(path) == {part \in Range(SplitOn(Lower(path), "/")) : part # ""}

\* mutant: the indexed path is compared as it is spelled
FindSimilarCaseSensitive(index, path) ==
    Prefix(Sorted({index[i].method \o " " \o index[i].path :
                      i \in {j \in DOMAIN index :
                                \E part \in Parts(path) :
                                    Contains(index[j].path, part)}}),
           10)

\* _find_similar_endpoints: the entries whose path holds a part of the
\* path asked for, as 'METHOD path', without duplicates, sorted, ten at most
find_similar_endpoints(index, path) ==
    Prefix(Sorted({index[i].method \o " " \o index[i].path :
                      i \in {j \in DOMAIN index :
                                \E part \in Parts(path) :
                                    Contains(Lower(index[j].path), part)}}),
           10)

\* the argument `method` as execute reads it
MethodOf(arg) == IF arg \in {NoArg, ""} THEN None ELSE Upper(arg)

ProvideText == "Please provide an endpoint path (e.g., '/developer/v1/bills')"

(***************************************************************************)
(* get_endpoint_schema.py: _generate_schema_example.  A JSON value is a    *)
(* record [kind, lit, items]: a scalar keeps its literal as json.dumps     *)
(* writes it, a list keeps its items, a dict keeps its <<[name, value]>>   *)
(* pairs in insertion order.  A schema is [type, properties], type None     *)
(* for a schema without 'type' and properties <<[name, type]>> in the      *)
(* order of the document ('properties' absent reads as the empty dict).    *)
(***************************************************************************)
JStr(s) == [kind |-> "str", lit |-> s, items |-> <<>>]
JNum(lit) == [kind |-> "num", lit |-> lit, items |-> <<>>]
JTrue == [kind |-> "bool", lit |-> "true", items |-> <<>>]
JNull == [kind |-> "null", lit |-> "null", items |-> <<>>]
JList(items) == [kind |-> "list", lit |-> "", items |-> items]
JDict(items) == [kind |-> "dict", lit |-> "", items |-> items]

Field(name, value) == [name |-> name, value |-> value]

Keys(dict) == {dict.items[i].name : i \in DOMAIN dict.items}

UuidHere == JStr("uuid-here")
Timestamp == JStr("2024-01-01T00:00:00Z")
UserEmail == JStr("user@company.com")

StringExampleDateFirst(prop_name) ==
    IF Contains(prop_name, "date") \/ Contains(prop_name, "time") THEN Timestamp
    ELSE IF EndsWith(prop_name, "_id") \/ prop_name = "id" THEN UuidHere
    ELSE IF prop_name = "email" THEN UserEmail
    ELSE JStr("string")

StringExample(prop_name) ==
    IF EndsWith(prop_name, "_id") \/ prop_name = "id" THEN UuidHere
    ELSE IF Contains(prop_name, "date") \/ Contains(prop_name, "time") THEN Timestamp
    ELSE IF prop_name = "email" THEN UserEmail
    ELSE JStr("string")

PropertyExample(prop) ==
    LET prop_type == IF prop.type = None THEN "string" ELSE prop.type
    IN  CASE prop_type = "string" -> StringExample(prop.name)
          [] prop_type = "integer" -> JNum("123")
          [] prop_type = "number" -> JNum("123.45")
          [] prop_type = "boolean" -> JTrue
          [] prop_type = "array" -> JList(<<JStr("item1"), JStr("item2")>>)
          [] OTHER -> JStr("value")

ObjectExample(properties) ==
    JDict([i \in DOMAIN properties |->
              Field(properties[i].name, PropertyExample(properties[i]))])

PageExample ==
    JDict(<<Field("next", JStr("https://api.ramp.com/developer/v1/endpoint?start=cursor")),
            Field("prev", JNull)>>)

Declares(s, key) == \E i \in DOMAIN s.properties : s.properties[i].name = key

WrapsUnlessData(s, for_response) == for_response /\ ~Declares(s, "data")

Wraps(s, for_response) ==
    for_response /\ ~Declares(s, "data") /\ ~(Declares(s, "data") \/ Declares(s, "page"))

generate_schema_example(s, for_response) ==
    IF s.type # "object" THEN JNull
    ELSE IF Wraps(s, for_response)
         THEN JDict(<<Field("data", IF s.properties # <<>> THEN ObjectExample(s.properties)
                                    ELSE JDict(<<Field("id", UuidHere)>>)),
                      Field("page", PageExample)>>)
         ELSE ObjectExample(s.properties)

(***************************************************************************)
(* get_endpoint_schema.py: _format_endpoint_schemas.  The details of an    *)
(* operation are [operationId, summary, description, parameters,           *)
(* requestBody, responses], None for a text that is absent.  A parameter   *)
(* is [name, in, required, type, default, description]: required FALSE and *)
(* description "" when absent, type and default None when absent, default  *)
(* otherwise the text str() gives.  requestBody is [present, required,     *)
(* json, schema] and responses is [ok, json, schema]: present for a        *)
(* non-empty dict, ok for a '200' entry, json for an 'application/json'    *)
(* content.  The report is written without its pictographs and bullet      *)
(* signs and with apostrophes for backquotes.                              *)
(***************************************************************************)
NoSchema == [type |-> None, properties |-> <<>>]
NoBody == [present |-> FALSE, required |-> FALSE, json |-> FALSE, schema |-> NoSchema]
NoResponses == [ok |-> FALSE, json |-> FALSE, schema |-> NoSchema]

\* json.dumps(value, indent=2), at the given depth of indentation
RECURSIVE Dumps(_, _)
Dumps(v, depth) ==
    LET pad == Repeat(" ", depth + 2)
        item(i) == pad \o (IF v.kind = "dict"
                           THEN "\"" \o v.items[i].name \o "\": "
                                \o Dumps(v.items[i].value, depth + 2)
                           ELSE Dumps(v.items[i], depth + 2))
    IN  IF v.kind = "str" THEN "\"" \o v.lit \o "\""
        ELSE IF v.kind \notin {"list", "dict"} THEN v.lit
        ELSE IF v.items = <<>> THEN (IF v.kind = "dict" THEN "{}" ELSE "[]")
        ELSE (IF v.kind = "dict" THEN "{" ELSE "[")
             \o "\n" \o Join([i \in DOMAIN v.items |-> item(i)], ",\n") \o "\n"
             \o Repeat(" ", depth) \o (IF v.kind = "dict" THEN "}" ELSE "]")

\* the truth value of an example: None and the empty dict are false
Truthy(v) == v.kind = "dict" /\ v.items # <<>>

JsonBlock(v) == "'''json\n" \o Dumps(v, 0) \o "\n'''"

RECURSIVE Concat(_)
Concat(lists) == IF lists = <<>> THEN <<>> ELSE lists[1] \o Concat(Tail(lists))

Located(parameters, where) == SelectSeq(parameters, LAMBDA p : p["in"] = where)

DescriptionLines(param) ==
    IF param.description # "" THEN <<"  " \o param.description>> ELSE <<>>

QueryLines(param) ==
    <<" **'" \o param.name \o "'**: '"
      \o (IF param.type = None THEN "unknown" ELSE param.type) \o "' - "
      \o (IF param.required THEN "**required**" ELSE "optional")
      \o (IF param.default # None THEN " (default: " \o param.default \o ")" ELSE "")>>
    \o DescriptionLines(param)

PathLines(param) ==
    <<" **'" \o param.name \o "'**: '"
      \o (IF param.type = None THEN "string" ELSE param.type) \o "' - **required**">>
    \o DescriptionLines(param)

ParameterLines(parameters) ==
    LET group(where, title, lines(_)) ==
            IF Located(parameters, where) = <<>> THEN <<>>
            ELSE <<title>>
                 \o Concat([i \in DOMAIN Located(parameters, where) |->
                               lines(Located(parameters, where)[i])])
                 \o <<"">>
    IN  IF parameters = <<>> THEN <<>>
        ELSE <<"##  Request Parameters">>
             \o group("query", "### Query Parameters", QueryLines)
             \o group("path", "### Path Parameters", PathLines)

RequestBodyLines(request_body, http_method) ==
    IF ~(request_body.present /\ http_method \in {"POST", "PUT", "PATCH"}) THEN <<>>
    ELSE <<"##  Request Body",
           "**Required**: " \o (IF request_body.required THEN "Yes" ELSE "No")>>
         \o (IF ~request_body.json THEN <<>>
             ELSE <<"**Content-Type**: 'application/json'">>
                  \o (IF Truthy(generate_schema_example(request_body.schema, FALSE))
                      THEN <<"**Example**:",
                             JsonBlock(generate_schema_example(request_body.schema, FALSE))>>
                      ELSE <<>>))
         \o <<"">>

ResponseLines(responses) ==
    IF ~responses.ok THEN <<>>
    ELSE <<"##  Response Schema (200 OK)">>
         \o (IF responses.json /\ Truthy(generate_schema_example(responses.schema, TRUE))
             THEN <<"**Response Structure**:",
                    JsonBlock(generate_schema_example(responses.schema, TRUE))>>
             ELSE <<>>)
         \o <<"">>

\* _detect_endpoint_cluster: the first cluster of the catalog that lists the
\* path, None when none does
detect_endpoint_cluster(path) ==
    LET listing == {i \in 1..Len_clusters : path \in Range(use_case_clusters[i].endpoints)}
    IN  IF listing = {} THEN None
        ELSE use_case_clusters[CHOOSE i \in listing : \A j \in listing : i <= j].name

WarningLines(path) ==
    IF detect_endpoint_cluster(path) = None
          \/ ClusterData(detect_endpoint_cluster(path)).warnings = <<>>
    THEN <<>>
    ELSE <<"", "##  Important Context">>
         \o [i \in DOMAIN ClusterData(detect_endpoint_cluster(path)).warnings |->
                " " \o ClusterData(detect_endpoint_cluster(path)).warnings[i]]

EndpointLines(e) ==
    <<"#  " \o e.method \o " " \o e.path,
      "**Operation**: "
        \o (IF e.details.operationId = None THEN "N/A" ELSE e.details.operationId),
      "**Description**: "
        \o (IF e.details.summary # None THEN e.details.summary
            ELSE IF e.details.description # None THEN e.details.description
            ELSE "No description")>>
    \o WarningLines(e.path)
    \o <<"">>
    \o ParameterLines(e.details.parameters)
    \o RequestBodyLines(e.details.requestBody, e.method)
    \o ResponseLines(e.details.responses)

\* str.title(): a letter is upper-cased after a character that is no letter
\* and lower-cased after a letter
RECURSIVE TitleFrom(_, _)
TitleFrom(s, i) ==
    IF i > Len(s) THEN ""
    ELSE (IF i > 1 /\ LowerChar(Char(s, i - 1)) # UpperChar(Char(s, i - 1))
          THEN LowerChar(Char(s, i)) ELSE UpperChar(Char(s, i)))
         \o TitleFrom(s, i + 1)

\* the methods the index holds for a path, in the order of the index
MethodsOf(index, path) ==
    LET at == SelectSeq(index, LAMBDA e : e.path = path)
    IN  [i \in DOMAIN at |-> at[i].method]

RelatedOf(index, endpoint_path) ==
    IF MethodsOf(index, endpoint_path) = <<>> THEN <<>>
    ELSE <<(IF "GET" \in Range(MethodsOf(index, endpoint_path)) THEN "GET"
            ELSE MethodsOf(index, endpoint_path)[1]) \o " " \o endpoint_path>>

RelatedWithPrimary(index, cluster_name, exclude_path) ==
    Concat([i \in DOMAIN ClusterData(cluster_name).endpoints |->
               RelatedOf(index, ClusterData(cluster_name).endpoints[i])])

get_related_endpoints(index, cluster_name, exclude_path) ==
    Concat([i \in DOMAIN ClusterData(cluster_name).endpoints |->
               IF ClusterData(cluster_name).endpoints[i] # exclude_path
               THEN RelatedOf(index, ClusterData(cluster_name).endpoints[i])
               ELSE <<>>])

RelatedLines(found, related, index) ==
    LET cluster_name == detect_endpoint_cluster(found[1].path)
    IN  IF ~related \/ found = <<>> \/ cluster_name = None THEN <<>>
        ELSE IF get_related_endpoints(index, cluster_name, found[1].path) = <<>> THEN <<>>
        ELSE <<"##  Related Endpoints",
               "**Use Case**: " \o TitleFrom(Replace(cluster_name, "_", " "), 1)>>
             \o [i \in DOMAIN Prefix(get_related_endpoints(index, cluster_name, found[1].path), 5) |->
                    " '" \o get_related_endpoints(index, cluster_name, found[1].path)[i] \o "'"]
             \o <<"">>

format_endpoint_schemas(found, related, index) ==
    Concat([i \in DOMAIN found |-> EndpointLines(found[i])])
        \o RelatedLines(found, related, index)

RECURSIVE Bullets(_)
Bullets(eps) ==
    IF eps = <<>> THEN <<>> ELSE <<" " \o eps[1]>> \o Bullets(Tail(eps))

\* the text of the not-found answer, without its cross and bullet signs and
\* with apostrophes for backquotes
NotFoundText(path, http_method, similar) ==
    "Endpoint not found: '"
    \o (IF http_method # None THEN http_method \o " " ELSE "") \o path \o "'"
    \o (IF similar # <<>>
        THEN "\n\n**Similar endpoints available:**\n" \o Join(Bullets(Prefix(similar, 5)), "\n")
        ELSE "")

\* the title lines of the report _format_endpoint_schemas writes, one per
\* matched endpoint, without the pictograph
RECURSIVE ReportTitles(_)
ReportTitles(eps) ==
    IF eps = <<>> THEN <<>>
    ELSE <<"#  " \o eps[1].method \o " " \o eps[1].path>> \o ReportTitles(Tail(eps))

\* the answer of execute for a lookup result
Answer(found, path, http_method, related, index) ==
    IF found = <<>>
    THEN [kind |-> "not_found",
          text |-> NotFoundText(path, http_method, find_similar_endpoints(index, path))]
    ELSE [kind |-> "schema", titles |-> ReportTitles(found),
          text |-> Join(format_endpoint_schemas(found, related, index), "\n")]

(***************************************************************************)
(* OpenAPI documents: the bills path with up to MaxMethods keys in any     *)
(* order (lower and upper case spellings of one method, a key that is no   *)
(* HTTP method), alone or with one more path before or after it.           *)
(***************************************************************************)
MaxMethods == 2

MethodKeys == {"get", "post", "GET", "delete", "parameters"}

BillsPath == "/developer/v1/bills"

OtherPaths == {"/developer/v1/users", "/developer/v1/Bills/{bill_id}"}

\* an operation that declares its operationId alone
Plain(id) ==
    [operationId |-> id, summary |-> None, description |-> None, parameters |-> <<>>,
     requestBody |-> NoBody, responses |-> NoResponses]

Operation(key) == [key |-> key, details |-> Plain("op-" \o key)]

\* the sequences of distinct keys, as operations
MethodLists ==
    {[i \in DOMAIN ks |-> Operation(ks[i])] \o <<>> :
        ks \in {k \in UNION {[1..n -> MethodKeys] : n \in 0..MaxMethods} :
                   \A i, j \in DOMAIN k : i # j => k[i] # k[j]}}

\* a document of twelve operations on five paths, four of them endpoints of
\* the ap_workflow cluster, one with no GET
WidePaths ==
    <<[path |-> "/developer/v1/vendors",
       methods |-> <<Operation("post"), Operation("get"), Operation("delete")>>],
      [path |-> "/developer/v1/bills/drafts",
       methods |-> <<Operation("delete"), Operation("post")>>],
      [path |-> BillsPath,
       methods |-> <<Operation("post"), Operation("get")>>],
      [path |-> "/developer/v1/vendors/{vendor_id}/accounts",
       methods |-> <<Operation("get"), Operation("post"), Operation("delete")>>],
      [path |-> "/developer/v1/users",
       methods |-> <<Operation("get"), Operation("delete")>>]>>

OpenApiPaths ==
    LET bills == {<<[path |-> BillsPath, methods |-> ms]>> : ms \in MethodLists}
        other == {<<[path |-> p, methods |-> <<Operation("get")>>]>> : p \in OtherPaths}
    IN bills \cup {b \o o : b \in bills, o \in other} \cup {o \o b : b \in bills, o \in other}
       \cup {SubSeq(WidePaths, 1, 3), WidePaths}

EndpointArgs ==
    {BillsPath, "  /developer/v1/bills ", "", " ", "/developer/v1/cards",
     "/developer/v1/users", "/Bills", "/api/v2/items"}

MethodArgs == {NoArg, "", "GET", "post", "DELETE", "PATCH"}

InitSchema ==
    /\ pc = "start"
    /\ paths \in OpenApiPaths
    /\ endpoints = extract_all_endpoints(paths)
    /\ endpoint \in EndpointArgs
    /\ method \in MethodArgs
    /\ include_related = NoArg
    /\ matches = None
    /\ response = None
    /\ IdleIntent /\ IdleStore /\ IdleGuide /\ IdleExtract /\ IdleExample /\ IdleSearch /\ IdleTasks /\ IdleServer /\ IdleCalc

\* GetEndpointSchemaTool.execute(arguments)
GetEndpointSchema ==
    /\ pc = "start"
    /\ IF Strip(endpoint) = ""
       THEN /\ matches' = None
            /\ response' = [kind |-> "provide", text |-> ProvideText]
       ELSE /\ matches' = find_matching_endpoints(endpoints, Strip(endpoint), MethodOf(method))
            /\ response' = Answer(matches', Strip(endpoint), MethodOf(method),
                                 include_related # "False", endpoints)
    /\ pc' = "schema"
    /\ UNCHANGED <<calcVars, serverVars, taskVars, searchVars, exampleVars, paths, endpoints, endpoint, method, include_related,
                   intentVars, storeVars, guideVars, extractVars>>

NextSchema == GetEndpointSchema

SpecSchema == InitSchema /\ [][NextSchema]_vars

(***************************************************************************)
(* Claims about the schema lookup (SpecSchema).                            *)
(***************************************************************************)
\* a lookup was made for a path, with a method / without one
LookedUpWith ==
    pc = "schema" /\ Strip(endpoint) # "" /\ method \notin {NoArg, ""}

LookedUpWithout ==
    pc = "schema" /\ Strip(endpoint) # "" /\ method \in {NoArg, ""}

PathIndexed(index, path) == \E e \in Range(index) : e.path = path

\* C9: with a method given, the lookup returns exactly the index entries
\* with the path and the method asked for, which is one entry at most; when
\* there is none (also when the path has other methods) the answer is the
\* 'Endpoint not found' text.
C9_ExactPathAndMethod ==
    LookedUpWith =>
        /\ \A e \in Range(endpoints) :
              e \in Range(matches)
                 <=> (e.path = Strip(endpoint) /\ e.method = Upper(method))
        /\ Range(matches) \subseteq Range(endpoints)
        /\ Len(matches) <= 1
        /\ matches = <<>> <=> response.kind = "not_found"
        /\ matches = <<>> =>
              StartsWith(response.text,
                         "Endpoint not found: '" \o Upper(method) \o " "
                            \o Strip(endpoint) \o "'")

\* C9 witness: the path asked for has entries, none of them with the
\* method asked for, and the answer is the not-found text.
C9_Witness ==
    /\ LookedUpWith
    /\ PathIndexed(endpoints, Strip(endpoint))
    /\ matches = <<>>
    /\ response.kind = "not_found"

PriorityOf(m) == CHOOSE k \in DOMAIN method_priority : method_priority[k] = m

\* C10 as claimed: with the method omitted and a path that has entries, the
\* lookup returns the single entry of the method that comes first in GET,
\* POST, PUT, PATCH, DELETE, whatever the order of the document.
C10_HighestPriorityOnly ==
    (LookedUpWithout /\ PathIndexed(endpoints, Strip(endpoint))) =>
        /\ Len(matches) = 1
        /\ matches[1].path = Strip(endpoint)
        /\ \A e \in Range(endpoints) :
              e.path = Strip(endpoint)
                 => PriorityOf(matches[1].method) <= PriorityOf(e.method)

\* the segments of a path between slashes, lower-cased, the empty ones dropped
Segments(path) == {seg \in Range(SplitOn(Lower(path), "/")) : seg # ""}

\* 'METHOD path' of the entries whose path holds a segment, whatever the case
SimilarTo(index, path) ==
    {e.method \o " " \o e.path :
        e \in {x \in Range(index) :
                  \E seg \in Segments(path) : Contains(Lower(x.path), seg)}}

\* list is the n least elements of S in ascending order (all of S when it
\* has fewer)
LeastOf(list, S, n) ==
    /\ Len(list) = (IF Cardinality(S) < n THEN Cardinality(S) ELSE n)
    /\ Range(list) \subseteq S
    /\ \A i, j \in DOMAIN list : i < j => StrLess(list[i], list[j])
    /\ \A x \in S \ Range(list) : \A i \in DOMAIN list : StrLess(list[i], x)

SimilarMark == "\n\n**Similar endpoints available:**\n"

\* the suggestions a not-found text lists, one per line
Suggested(text) ==
    IF ~Contains(text, SimilarMark) THEN <<>>
    ELSE LET lines == SplitOn(From(text, Find(text, SimilarMark) + Len(SimilarMark)), "\n")
         IN [i \in DOMAIN lines |-> From(lines[i], 2)]

NotFound == pc = "schema" /\ response.kind = "not_found"

\* C11: when no endpoint matches, the suggestion list is the sorted list of
\* the indexed endpoints whose path contains, whatever the case, a
\* non-empty segment of the path asked for, without duplicates and cut to
\* ten; the not-found text lists the first five of them at most, and none
\* when no segment occurs in an indexed path.
C11_SimilarEndpoints ==
    NotFound =>
        /\ LeastOf(find_similar_endpoints(endpoints, Strip(endpoint)),
                   SimilarTo(endpoints, Strip(endpoint)), 10)
        /\ LeastOf(Suggested(response.text), SimilarTo(endpoints, Strip(endpoint)), 5)
        /\ SimilarTo(endpoints, Strip(endpoint)) = {}
              => ~Contains(response.text, "Similar endpoints")

\* C11 witness: more than ten indexed endpoints share a segment with the
\* path asked for, one of them only when the case is ignored, and the text
\* lists five.
C11_Witness ==
    /\ NotFound
    /\ Cardinality(SimilarTo(endpoints, Strip(endpoint))) > 10
    /\ Len(Suggested(response.text)) = 5

\* C11 second case reached: a path spelled with a capital is suggested for a
\* lower-case segment.
C11_CaseWitness ==
    /\ NotFound
    /\ endpoint = "/Bills"
    /\ "GET /developer/v1/Bills/{bill_id}" \in Range(Suggested(response.text))

(***************************************************************************)
(* The schemas the function is applied to: property lists of at most       *)
(* MaxProps properties with distinct names (the properties are the keys of *)
(* a dict), under a schema of type object, of another type or of none.     *)
(***************************************************************************)
MaxProps == 2

PropNames == {"id", "vendor_id", "update_id", "due_date", "start_time",
              "email", "user_email", "name", "data", "page"}

Props ==
    {[name |-> n, type |-> t] : n \in PropNames, t \in {"string", None}}
        \cup {[name |-> n, type |-> t] :
                 n \in {"amount", "data", "page"},
                 t \in {"integer", "number", "boolean", "array", "object"}}

PropLists ==
    {ps \in UNION {[1..n -> Props] : n \in 0..MaxProps} :
        \A i, j \in DOMAIN ps : ps[i].name = ps[j].name => i = j}

Schemas ==
    {[type |-> "object", properties |-> ps] : ps \in PropLists}
        \cup {[type |-> t, properties |-> <<>>] : t \in {"array", "string", None}}

InitExample ==
    /\ pc = "start"
    /\ IdleIntent /\ IdleStore /\ IdleGuide /\ IdleExtract /\ IdleSchema /\ IdleSearch /\ IdleTasks /\ IdleServer /\ IdleCalc
    /\ schema \in Schemas
    /\ is_response \in BOOLEAN
    /\ example = None

GenerateSchemaExample ==
    /\ pc = "start"
    /\ pc' = "example"
    /\ example' = generate_schema_example(schema, is_response)
    /\ UNCHANGED <<calcVars, serverVars, taskVars, searchVars, schema, is_response, intentVars, storeVars, guideVars,
                   extractVars, schemaVars>>

NextExample == GenerateSchemaExample

SpecExample == InitExample /\ [][NextExample]_vars

Generated == pc = "example" /\ schema.type = "object"

ValueOf(dict, key) ==
    dict.items[CHOOSE i \in DOMAIN dict.items : dict.items[i].name = key].value

\* C12: the example synthesized for a request object schema has exactly one
\* field per declared property, in the order of the declaration, and the
\* value of each field follows from the property's type and name alone: a
\* string named 'id' or ending in '_id' gets the UUID placeholder, before
\* the date/time and email rules; another string whose name contains 'date'
\* or 'time' gets the timestamp; another string named 'email' gets the
\* email placeholder; any other string gets 'string'; an integer gets 123,
\* a number 123.45, a boolean true and an array the list of two items.
C12_RequestExample ==
    (Generated /\ ~is_response) =>
        /\ example.kind = "dict"
        /\ Len(example.items) = Len(schema.properties)
        /\ \A i \in DOMAIN schema.properties :
              LET p == schema.properties[i]
                  v == example.items[i].value
                  id == p.name = "id" \/ EndsWith(p.name, "_id")
                  stamp == Contains(p.name, "date") \/ Contains(p.name, "time")
              IN  /\ example.items[i].name = p.name
                  /\ (p.type = "string" /\ id) => v = UuidHere
                  /\ (p.type = "string" /\ ~id /\ stamp) => v = Timestamp
                  /\ (p.type = "string" /\ ~id /\ ~stamp /\ p.name = "email")
                        => v = UserEmail
                  /\ (p.type = "string" /\ ~id /\ ~stamp /\ p.name # "email")
                        => v = JStr("string")
                  /\ p.type = "integer" => v = JNum("123")
                  /\ p.type = "number" => v = JNum("123.45")
                  /\ p.type = "boolean" => v = JTrue
                  /\ p.type = "array" => v = JList(<<JStr("item1"), JStr("item2")>>)

C12_Witness ==
    /\ Generated /\ ~is_response
    /\ Len(schema.properties) = 2
    /\ schema.properties[1] = [name |-> "due_date", type |-> "string"]
    /\ schema.properties[2] = [name |-> "update_id", type |-> "string"]
    /\ example.items[1].value = Timestamp
    /\ example.items[2].value = UuidHere

Envelope(object) == JDict(<<Field("data", object), Field("page", PageExample)>>)

ResponseExample == Generated /\ is_response

Paginated == Declares(schema, "data") \/ Declares(schema, "page")

\* C13 as stated: a response example of an object schema is the envelope
\* {data: <the synthesized object>, page: {next, prev}} if and only if the
\* schema declares neither 'data' nor 'page', and is the synthesized object
\* itself, with exactly its own fields, when the schema declares either.
C13_EnvelopeOfObject ==
    ResponseExample =>
        /\ ~Paginated <=> example = Envelope(ObjectExample(schema.properties))
        /\ Paginated => example = ObjectExample(schema.properties)

\* C13 amended: a response example of an object schema is an envelope
\* {data, page: {next, prev}} if and only if the schema declares neither
\* 'data' nor 'page'; its data is the synthesized object when the schema
\* declares a property and the object {id: 'uuid-here'} when it declares
\* none.  A schema declaring 'data' or 'page' yields the synthesized object
\* itself, one field per declared property.
C13_EnvelopeOrPlaceholder ==
    ResponseExample =>
        /\ (~Paginated /\ schema.properties # <<>>)
              => example = Envelope(ObjectExample(schema.properties))
        /\ (~Paginated /\ schema.properties = <<>>)
              => example = Envelope(JDict(<<Field("id", UuidHere)>>))
        /\ Paginated =>
              /\ example = ObjectExample(schema.properties)
              /\ Len(example.items) = Len(schema.properties)
              /\ \A i \in DOMAIN example.items :
                    example.items[i].name = schema.properties[i].name
        /\ ~Paginated <=>
              (Len(example.items) = 2 /\ example.items[2] = Field("page", PageExample)
                  /\ example.items[1].name = "data")

C13_Witness ==
    /\ ResponseExample
    /\ Declares(schema, "page") /\ ~Declares(schema, "data")
    /\ Len(schema.properties) = 2
    /\ Keys(example) = {"page", "name"}

C13_EmptyWitness ==
    /\ ResponseExample
    /\ schema.properties = <<>>
    /\ ValueOf(example, "data") = JDict(<<Field("id", UuidHere)>>)

(***************************************************************************)
(* Documents for the report: the bills path with a POST operation that     *)
(* declares parameters, a request body and responses, and a plain GET,     *)
(* followed by other paths of the catalog's clusters or by none.  Either   *)
(* the parameter list varies (at most MaxParams parameters) or the rest of *)
(* the operation does.                                                     *)
(***************************************************************************)
MaxParams == 2

Parameter(name, where, required, type, default, description) ==
    [name |-> name, in |-> where, required |-> required, type |-> type,
     default |-> default, description |-> description]

Parameters ==
    {Parameter("limit", "query", FALSE, "integer", "10", "Page size"),
     Parameter("start", "query", TRUE, None, None, ""),
     Parameter("bill_id", "path", TRUE, "string", None, "Bill to read"),
     Parameter("entity_id", "path", TRUE, None, None, ""),
     Parameter("Idempotency-Key", "header", TRUE, "string", None, "Retry key"),
     Parameter("session", "cookie", FALSE, "string", None, "")}

ParameterLists == UNION {[1..n -> Parameters] : n \in 0..MaxParams}

BillSchema ==
    [type |-> "object",
     properties |-> <<[name |-> "id", type |-> "string"], [name |-> "amount", type |-> "number"]>>]

PagedSchema ==
    [type |-> "object",
     properties |-> <<[name |-> "data", type |-> "array"], [name |-> "page", type |-> "object"]>>]

RequestBodies ==
    {NoBody,
     [present |-> TRUE, required |-> TRUE, json |-> TRUE, schema |-> BillSchema],
     [present |-> TRUE, required |-> FALSE, json |-> TRUE,
      schema |-> [type |-> "object", properties |-> <<>>]],
     [present |-> TRUE, required |-> FALSE, json |-> FALSE, schema |-> NoSchema]}

ResponseSets ==
    {NoResponses,
     [ok |-> TRUE, json |-> FALSE, schema |-> NoSchema],
     [ok |-> TRUE, json |-> TRUE, schema |-> BillSchema],
     [ok |-> TRUE, json |-> TRUE, schema |-> PagedSchema],
     [ok |-> TRUE, json |-> TRUE, schema |-> [type |-> "array", properties |-> <<>>]]}

Descriptions ==
    {[summary |-> None, description |-> None],
     [summary |-> None, description |-> "Creates a bill"],
     [summary |-> "Create bill", description |-> "Creates a bill"]}

OperationDetails ==
    {[Plain("create-bill") EXCEPT !.parameters = ps,
         !.requestBody = [present |-> TRUE, required |-> TRUE, json |-> TRUE,
                          schema |-> BillSchema]] :
        ps \in ParameterLists}
    \cup {[operationId |-> id, summary |-> d.summary, description |-> d.description,
           parameters |-> <<>>, requestBody |-> b, responses |-> r] :
             id \in {None, "create-bill"}, d \in Descriptions,
             b \in RequestBodies, r \in ResponseSets}

CustomPath == "/developer/v1/custom"

OtherPathLists ==
    {<<>>,
     <<[path |-> CustomPath, methods |-> <<Operation("get")>>]>>,
     SubSeq(WidePaths, 1, 2) \o <<[path |-> CustomPath, methods |-> <<Operation("put")>>]>>}

ReportDocuments ==
    {<<[path |-> BillsPath,
        methods |-> <<[key |-> "post", details |-> d], Operation("get")>>]>> \o others :
        d \in OperationDetails, others \in OtherPathLists}

InitReport ==
    /\ pc = "start"
    /\ paths \in ReportDocuments
    /\ endpoints = extract_all_endpoints(paths)
    /\ endpoint \in {BillsPath, "/developer/v1/vendors", CustomPath}
    /\ method \in {NoArg, "post"}
    /\ include_related \in {NoArg, "True", "False"}
    /\ matches = None
    /\ response = None
    /\ IdleIntent /\ IdleStore /\ IdleGuide /\ IdleExtract /\ IdleExample /\ IdleSearch /\ IdleTasks /\ IdleServer /\ IdleCalc

SpecReport == InitReport /\ [][NextSchema]_vars

Reported == pc = "schema" /\ response.kind = "schema"

RelatedMark == "##  Related Endpoints\n"

\* the entries of the related section of a report, without their quotes
RelatedShown(text) ==
    IF ~Contains(text, RelatedMark) THEN <<>>
    ELSE LET rest == SplitOn(From(text, Find(text, RelatedMark) + Len(RelatedMark)), "\n")
             entries == SelectSeq(rest, LAMBDA l : StartsWith(l, " '"))
         IN  [i \in DOMAIN entries |-> SubSeq(entries[i], 3, Len(entries[i]) - 1)]

IndexedAt(index, path) == {i \in DOMAIN index : index[i].path = path}

\* GET when the index holds GET for the path, else the method of the first
\* entry the index holds for it
PrimaryMethod(index, path) ==
    IF \E i \in IndexedAt(index, path) : index[i].method = "GET" THEN "GET"
    ELSE index[CHOOSE i \in IndexedAt(index, path) :
                  \A j \in IndexedAt(index, path) : i <= j].method

\* C14: when include_related is set and the path of the first matched
\* endpoint is listed by a cluster, the report shows at most five related
\* entries, each 'METHOD path' for a path of that cluster other than the
\* primary path that the index holds, with GET when the path defines GET
\* and its first indexed method otherwise; a related section is rendered
\* only then, and only when there is such a path.
C14_RelatedEndpoints ==
    Reported =>
        LET primary == matches[1].path
            home == detect_endpoint_cluster(primary)
            shown == RelatedShown(response.text)
            eligible == IF home = None THEN {}
                        ELSE {p \in Range(ClusterData(home).endpoints) :
                                 p # primary /\ IndexedAt(endpoints, p) # {}}
        IN  /\ Len(shown) <= 5
            /\ \A i \in DOMAIN shown :
                  \E p \in eligible : shown[i] = PrimaryMethod(endpoints, p) \o " " \o p
            /\ (include_related = "False" \/ home = None)
                  => ~Contains(response.text, "Related Endpoints")
            /\ (include_related # "False" /\ eligible # {})
                  => /\ Contains(response.text, RelatedMark \o "**Use Case**: ")
                     /\ shown # <<>>

C14_Witness ==
    /\ Reported
    /\ include_related = NoArg
    /\ matches[1].path = BillsPath
    /\ RelatedShown(response.text) =
          <<"DELETE /developer/v1/bills/drafts", "GET /developer/v1/vendors">>

C14_NoClusterWitness ==
    /\ Reported
    /\ include_related = "True"
    /\ matches[1].path = CustomPath
    /\ Len(endpoints) > 4
    /\ ~Contains(response.text, "Related Endpoints")

\* a parameter is rendered in a text: a group heading names its location and
\* a line names it with its declared type, its required or optional flag and
\* its declared default, followed by its description when it has one
Rendered(p, text) ==
    /\ \E l \in Range(SplitOn(text, "\n")) :
          StartsWith(l, "### ") /\ Contains(Lower(l), p["in"])
    /\ \E l \in Range(SplitOn(text, "\n")) :
          /\ StartsWith(l, " **'" \o p.name \o "'**: ")
          /\ p.type # None => Contains(l, "'" \o p.type \o "'")
          /\ Contains(l, IF p.required THEN "required" ELSE "optional")
          /\ p.default # None => Contains(l, "(default: " \o p.default \o ")")
    /\ p.description # "" => Contains(text, "\n  " \o p.description \o "\n")

\* C15: in the report of a matched endpoint every declared parameter located
\* in query, path or header is rendered under the group of its location with
\* its type, its required or optional flag, its default when one is declared
\* and its description.
C15_EveryParameterRendered ==
    Reported =>
        \A i \in DOMAIN matches : \A j \in DOMAIN matches[i].details.parameters :
            matches[i].details.parameters[j]["in"] \in {"query", "path", "header"}
                => Rendered(matches[i].details.parameters[j], response.text)

(***************************************************************************)
(* Python floats.  A double x with 0 <= x < 8 that is a multiple of 2^-56  *)
(* (every double from 2^-4 up is) is kept exactly, as the pair <<hi, lo>>  *)
(* with x * 2^56 = hi * 2^30 + lo and lo < 2^30.  A sum or a product is    *)
(* the exact result rounded to 53 significant bits, ties to even.          *)
(***************************************************************************)
FloatBase == 2^30

FloatZero == <<0, 0>>
FloatTenth == <<6710886, 429496730>>
FloatThreeTenths == <<20132659, 214748364>>
FloatHalf == <<33554432, 0>>

Carry(hi, lo) == <<hi + lo \div FloatBase, lo % FloatBase>>

FloatRound(v) ==
    LET excess == IF v[1] < 2^23 THEN 0
                  ELSE CHOOSE k \in 1..7 : 2^(22 + k) <= v[1] /\ v[1] < 2^(23 + k)
        unit == 2^excess
        rest == v[2] % unit
        down == v[2] - rest
    IN  IF rest * 2 > unit \/ (rest * 2 = unit /\ (down \div unit) % 2 = 1)
        THEN Carry(v[1], down + unit)
        ELSE <<v[1], down>>

FloatAdd(a, b) == FloatRound(Carry(a[1] + b[1], a[2] + b[2]))

RECURSIVE ExactTimes(_, _)
ExactTimes(n, a) ==
    IF n = 0 THEN FloatZero
    ELSE Carry(ExactTimes(n - 1, a)[1] + a[1], ExactTimes(n - 1, a)[2] + a[2])

\* float(n) * a
FloatTimes(n, a) == FloatRound(ExactTimes(n, a))

FloatLess(a, b) == a[1] < b[1] \/ (a[1] = b[1] /\ a[2] < b[2])

RECURSIVE AddTimes(_, _, _)
AddTimes(score, n, a) == IF n = 0 THEN score ELSE AddTimes(FloatAdd(score, a), n - 1, a)
(***************************************************************************)
(* search_documentation.py: _calculate_relevance and _find_relevant_guides.*)
(***************************************************************************)
keyword_boosts ==
    <<[keyword |-> "auth", files |-> <<"authorization.mdx", "guides/getting-started.mdx">>],
      [keyword |-> "oauth", files |-> <<"authorization.mdx", "guides/getting-started.mdx">>],
      [keyword |-> "bill", files |-> <<"guides/bill-pay.mdx">>],
      [keyword |-> "payment", files |-> <<"guides/bill-pay.mdx">>],
      [keyword |-> "card", files |-> <<"guides/single-use-cards.mdx", "guides/cards-and-funds.mdx">>],
      [keyword |-> "webhook", files |-> <<"webhooks.mdx">>],
      [keyword |-> "accounting", files |-> <<"guides/accounting.mdx">>],
      [keyword |-> "mcp", files |-> <<"guides/ramp-mcp-remote.mdx">>]>>

\* mutant: a word the query repeats is counted once
FilenameHitsDistinct(words, filename_lower) ==
    Cardinality({w \in Range(words) : Contains(filename_lower, w)})

\* the query words that are substrings of the filename, repeats counted
FilenameHits(words, filename_lower) ==
    Cardinality({i \in DOMAIN words : Contains(filename_lower, words[i])})

CommonWords(query_lower, content_lower) ==
    Range(Split(query_lower)) \cap Range(Split(content_lower))

\* the pairs of a boost keyword the query contains and a file of its list
\* the filename contains
Boosts(query_lower, filename_lower) ==
    Cardinality({<<i, j>> \in (DOMAIN keyword_boosts) \X (1..2) :
                    /\ j <= Len(keyword_boosts[i].files)
                    /\ Contains(query_lower, keyword_boosts[i].keyword)
                    /\ Contains(filename_lower, keyword_boosts[i].files[j])})

RelevanceOf(hits, common, boosts) ==
    AddTimes(FloatAdd(AddTimes(FloatZero, hits, FloatThreeTenths),
                      FloatTimes(common, FloatTenth)),
             boosts, FloatHalf)

calculate_relevance(q, text, filename) ==
    RelevanceOf(FilenameHits(Split(Lower(q)), Lower(filename)),
                Cardinality(CommonWords(Lower(q), Lower(text))),
                Boosts(Lower(q), Lower(filename)))

Guide(filename, text, name, score) ==
    [filename |-> filename, content |-> text, cluster |-> name, score |-> score]

\* the first loop of _find_relevant_guides: the guides of the detected
\* cluster that are found with a text
RECURSIVE ClusterGuides(_, _, _, _, _)
ClusterGuides(q, detected, disk, store, i) ==
    IF detected = None THEN <<>>
    ELSE IF i > Len(ClusterData(detected).guides) THEN <<>>
    ELSE LET guide_filename == ClusterData(detected).guides[i]
             guide_content == find_guide_by_filename(disk, store, guide_filename)
         IN  (IF guide_content \notin {None, ""}
              THEN <<Guide(guide_filename, guide_content, detected,
                           calculate_relevance(q, guide_content, guide_filename))>>
              ELSE <<>>)
             \o ClusterGuides(q, detected, disk, store, i + 1)

Included(relevant, guide_path) ==
    \E i \in DOMAIN relevant : Contains(guide_path, relevant[i].filename)

\* one turn of the second loop, over the loaded guides
SweepStep(relevant, q, store, i) ==
    IF Included(relevant, store[i].path) THEN relevant
    ELSE IF FloatLess(FloatTenth, calculate_relevance(q, store[i].content, store[i].path))
    THEN Append(relevant, Guide(store[i].path, store[i].content, "general",
                                calculate_relevance(q, store[i].content, store[i].path)))
    ELSE relevant

RECURSIVE Sweep(_, _, _, _)
Sweep(relevant, q, store, i) ==
    IF i > Len(store) THEN relevant
    ELSE Sweep(SweepStep(relevant, q, store, i) \o <<>>, q, store, i + 1)

\* the guides gathered by the two loops, in the order they were appended
Gathered(q, detected, disk, store) ==
    Sweep(ClusterGuides(q, detected, disk, store, 1), q, store, 1)

PlaceFirstOfEqual(sorted, guide) ==
    LET before == Cardinality({i \in DOMAIN sorted : FloatLess(guide.score, sorted[i].score)})
    IN  SubSeq(sorted, 1, before) \o <<guide>> \o SubSeq(sorted, before + 1, Len(sorted))

\* a guide takes its place after the guides that score as much or more
Place(sorted, guide) ==
    LET before == Cardinality({i \in DOMAIN sorted : ~FloatLess(sorted[i].score, guide.score)})
    IN  SubSeq(sorted, 1, before) \o <<guide>> \o SubSeq(sorted, before + 1, Len(sorted))

\* list.sort(key=score, reverse=True): highest first, equal scores in the
\* order they had
RECURSIVE SortByScore(_, _, _)
SortByScore(sorted, list, i) ==
    IF i > Len(list) THEN sorted
    ELSE SortByScore(Place(sorted, list[i]) \o <<>>, list, i + 1)

find_relevant_guides(q, detected, disk, store) ==
    SortByScore(<<>>, Gathered(q, detected, disk, store), 1)

(***************************************************************************)
(* search_documentation.py: _extract_relevant_content and execute.  The    *)
(* fixed texts are the source's without their pictographs and bullet signs *)
(* and with apostrophes for backquotes.                                    *)
(***************************************************************************)
title_map ==
    <<[key |-> "authorization.mdx", title |-> "Authentication & Authorization"],
      [key |-> "guides/getting-started.mdx", title |-> "Getting Started Guide"],
      [key |-> "guides/bill-pay.mdx", title |-> "Bill Payments & Accounts Payable"],
      [key |-> "guides/accounting.mdx", title |-> "Accounting & ERP Integration"],
      [key |-> "guides/single-use-cards.mdx", title |-> "Card Management"],
      [key |-> "guides/cards-and-funds.mdx", title |-> "Cards & Funds Management"],
      [key |-> "webhooks.mdx", title |-> "Webhooks & Real-Time Events"],
      [key |-> "guides/ramp-mcp-remote.mdx", title |-> "AI Agents & MCP Integration"]>>

\* _get_guide_title: the title of the key equal to the filename, else of the
\* first key that contains the filename or is contained in it, else the
\* cleaned filename in title case
get_guide_title(filename) ==
    LET exact == {i \in DOMAIN title_map : title_map[i].key = filename}
        partial == {i \in DOMAIN title_map :
                       Contains(filename, title_map[i].key) \/ Contains(title_map[i].key, filename)}
    IN  IF exact # {} THEN title_map[CHOOSE i \in exact : TRUE].title
        ELSE IF partial # {}
        THEN title_map[CHOOSE i \in partial : \A j \in partial : i <= j].title
        ELSE TitleFrom(Replace(Replace(Replace(filename, ".mdx", ""), "guides/", ""), "-", " "), 1)

get_cluster_warnings(name) ==
    Join([i \in DOMAIN ClusterData(name).warnings |-> " " \o ClusterData(name).warnings[i]], "\n")

\* _extract_cluster_endpoints for a document that holds no path of the
\* cluster; the details written for a path the document holds are not
\* modelled, and the operator has no value there
extract_cluster_endpoints(doc, name) ==
    CASE \A i \in DOMAIN doc : doc[i].path \notin Range(ClusterData(name).endpoints) -> ""

SearchFooter ==
    "---\n\n"
    \o " **Next steps:**\n"
    \o " IMPORTANT: Use 'get_endpoint_schema' with specific endpoint paths "
    \o "(e.g., '/developer/v1/bills') to get precise parameter names, types, "
    \o "and examples for code generation!\n"
    \o " Use 'submit_feedback' if documentation needs further clarification "
    \o "or the MCP server is not functioning as expected\n"

SectionBlocksFirstOnly(secs) ==
    Join([i \in DOMAIN Prefix(secs, 1) |->
             "## " \o secs[i].title \o "\n\n" \o secs[i].content \o "\n\n"], "")

SectionBlocks(secs) ==
    Join([i \in DOMAIN secs |-> "## " \o secs[i].title \o "\n\n" \o secs[i].content \o "\n\n"], "")

extract_relevant_content(guide_info, q, name, doc) ==
    "#  Documentation: " \o get_guide_title(guide_info.filename) \o "\n\n"
    \o "**Found relevant content for:** *" \o q \o "*\n\n"
    \o (IF name # None /\ name # "general" /\ get_cluster_warnings(name) # ""
        THEN "##  Important Context\n\n" \o get_cluster_warnings(name) \o "\n\n" ELSE "")
    \o (IF name # None /\ name # "general" /\ extract_cluster_endpoints(doc, name) # ""
        THEN "##  Relevant API Endpoints\n\n" \o extract_cluster_endpoints(doc, name) \o "\n\n"
        ELSE "")
    \o (IF extract_key_sections(guide_info.content, name) # <<>>
        THEN SectionBlocks(extract_key_sections(guide_info.content, name))
        ELSE RemoveDelimited(RemoveDelimited(guide_info.content, "<", ">"), "{", "}"))
    \o SearchFooter

ProvideQueryText == "Please provide a search query describing what you're looking for."

NothingFoundText(q) ==
    "No specific documentation found for '" \o q \o "'. Try more specific keywords like "
    \o "'authentication', 'bill payments', 'webhooks', or 'card management'."

SearchAnswer(relevant, q, detected, doc) ==
    IF relevant = <<>> THEN NothingFoundText(q)
    ELSE extract_relevant_content(relevant[1], q, detected, doc)

(***************************************************************************)
(* The search: guide files of the documentation tree, each absent or with  *)
(* one text, loaded at startup in one of two directory orders.  One file   *)
(* has a path that contains the filename of a cluster's guide.             *)
(***************************************************************************)
SearchFiles ==
    <<"authorization.mdx", "guides/getting-started.mdx", "guides/bill-pay.mdx",
      "guides/authorization.mdx">>

SearchTexts ==
    [f \in Range(SearchFiles) |->
        CASE f = "authorization.mdx" ->
                {"## Overview\nsign-in overview " \o Body(60) \o "\n## Authentication\nshort"
                    \o "\n## Understanding environments\n" \o Body(70),
                 ""}
          [] f = "guides/getting-started.mdx" ->
                {"## Getting Started\noverview intro " \o Body(60)}
          [] f = "guides/bill-pay.mdx" ->
                {"## Bill Pay API\nbill payment " \o Body(60) \o "\n## Overview\nintro"}
          [] OTHER ->
                {"## Overview\noauth api overview intro " \o Body(60)}]

SearchDisks ==
    {d \in [Range(SearchFiles) -> UNION {SearchTexts[f] : f \in Range(SearchFiles)} \cup {NoFile}] :
        \A f \in Range(SearchFiles) : d[f] \in SearchTexts[f] \cup {NoFile}}

Reversed(s) == [i \in DOMAIN s |-> s[Len(s) + 1 - i]]

\* mutant: the first file that fails ends the loading
RECURSIVE LoadListedUntilFailure(_, _, _)
LoadListedUntilFailure(disk, listing, i) ==
    IF i > Len(listing) THEN <<>>
    ELSE IF disk[listing[i]] = NoFile THEN LoadListedUntilFailure(disk, listing, i + 1)
    ELSE IF LoadedEntry(disk, listing[i]) = <<>> THEN <<>>
    ELSE LoadedEntry(disk, listing[i]) \o LoadListedUntilFailure(disk, listing, i + 1)

\* _load_guides over a directory listing
RECURSIVE LoadListed(_, _, _)
LoadListed(disk, listing, i) ==
    IF i > Len(listing) THEN <<>>
    ELSE (IF disk[listing[i]] = NoFile THEN <<>> ELSE LoadedEntry(disk, listing[i]))
         \o LoadListed(disk, listing, i + 1)

SearchQueries ==
    {"oauth", "oauth api", "bill payment", "overview", "overview intro", "api", "hello", "  "}

InitSearch ==
    /\ pc = "start"
    /\ query \in SearchQueries
    /\ cluster = None
    /\ files \in SearchDisks
    /\ guides \in {LoadListed(files, SearchFiles, 1), LoadListed(files, Reversed(SearchFiles), 1)}
    /\ IdleGuide /\ IdleExtract /\ IdleSchema /\ IdleExample /\ IdleSearch /\ IdleTasks /\ IdleServer /\ IdleCalc

\* SearchDocumentationTool.execute(arguments)
SearchDocumentation ==
    /\ pc = "start"
    /\ IF Strip(query) = ""
       THEN /\ cluster' = None
            /\ relevant_guides' = <<>>
            /\ search_result' = ProvideQueryText
       ELSE /\ cluster' = detect_intent(Strip(query))
            /\ relevant_guides' = find_relevant_guides(Strip(query), cluster', files, guides)
            /\ search_result' = SearchAnswer(relevant_guides', Strip(query), cluster', paths)
    /\ pc' = "searched"
    /\ UNCHANGED <<calcVars, serverVars, taskVars, query, storeVars, guideVars, extractVars, schemaVars, exampleVars>>

NextSearch == RemoveFile \/ SearchDocumentation

SpecSearch == InitSearch /\ [][NextSearch]_vars

(***************************************************************************)
(* Claims about the search (SpecSearch).                                   *)
(***************************************************************************)
Searched == pc = "searched" /\ Strip(query) # ""

Listed(filename) == \E i \in DOMAIN relevant_guides : relevant_guides[i].filename = filename

ClusterList == IF cluster = None THEN {} ELSE Range(ClusterData(cluster).guides)

\* the loaded guide a filename of the cluster's list stands for: the guide
\* loaded from that file, or, when the file is not on disk, the first loaded
\* guide whose path contains the filename
StandsFor(f, i) ==
    \/ guides[i].path = GuideRoot \o f
    \/ /\ files[f] = NoFile
       /\ Contains(guides[i].path, f)
       /\ \A j \in 1..(i - 1) : ~Contains(guides[j].path, f)

\* a loaded guide that is no guide of the detected cluster's list
OtherLoaded(i) == \A f \in ClusterList : ~StandsFor(f, i)

ScoreOfLoaded(i) == calculate_relevance(Strip(query), guides[i].content, guides[i].path)

\* C16: every guide of the detected cluster's list that is found (with a
\* text) is in the result whatever its score; every other loaded guide is in
\* the result if and only if its score is greater than 0.1; no guide is in
\* the result twice.
C16_RankerInclusion ==
    Searched =>
        /\ \A f \in ClusterList :
              find_guide_by_filename(files, guides, f) \notin {None, ""} => Listed(f)
        /\ \A i \in DOMAIN guides :
              OtherLoaded(i) => (Listed(guides[i].path) <=> FloatLess(FloatTenth, ScoreOfLoaded(i)))
        /\ \A i, j \in DOMAIN relevant_guides :
              i # j => /\ relevant_guides[i].filename # relevant_guides[j].filename
                       /\ relevant_guides[i].filename # GuideRoot \o relevant_guides[j].filename

StoreIndex(filename) == CHOOSE i \in DOMAIN guides : guides[i].path = filename

\* C17: the returned list holds the gathered guides sorted by score, highest
\* first; of two guides with the same score a guide of the detected cluster
\* comes before a guide of the general sweep, and two guides of the sweep
\* come in the order of the store; the response is written from the first
\* guide of the list, whose score no other exceeds.
C17_RankerOrdering ==
    Searched =>
        /\ Len(relevant_guides) = Len(Gathered(Strip(query), cluster, files, guides))
        /\ Range(relevant_guides) = Range(Gathered(Strip(query), cluster, files, guides))
        /\ \A i, j \in DOMAIN relevant_guides :
              i < j =>
                /\ ~FloatLess(relevant_guides[i].score, relevant_guides[j].score)
                /\ relevant_guides[i].score = relevant_guides[j].score =>
                      /\ relevant_guides[j].cluster # "general"
                            => relevant_guides[i].cluster # "general"
                      /\ (relevant_guides[i].cluster = "general"
                            /\ relevant_guides[j].cluster = "general")
                            => StoreIndex(relevant_guides[i].filename)
                                  < StoreIndex(relevant_guides[j].filename)
        /\ relevant_guides # <<>> =>
              /\ StartsWith(search_result,
                            "#  Documentation: " \o get_guide_title(relevant_guides[1].filename)
                                \o "\n\n")
              /\ \A s \in Range(extract_key_sections(relevant_guides[1].content, cluster)) :
                    Contains(search_result, "## " \o s.title \o "\n\n" \o s.content \o "\n\n")
              /\ \A j \in DOMAIN relevant_guides :
                    ~FloatLess(relevant_guides[1].score, relevant_guides[j].score)

\* a guide of the general sweep is ranked first, above the cluster's guide
C17_Witness ==
    /\ Searched
    /\ cluster = "authentication"
    /\ Len(relevant_guides) = 2
    /\ relevant_guides[1].cluster = "general"
    /\ relevant_guides[2].cluster = "authentication"
    /\ FloatLess(relevant_guides[2].score, relevant_guides[1].score)
    /\ StartsWith(search_result, "#  Documentation: Getting Started Guide")

\* the cluster's guide and a guide of the sweep score the same
C17_TieWitness ==
    /\ Searched
    /\ Len(relevant_guides) = 2
    /\ relevant_guides[1].cluster = "authentication"
    /\ relevant_guides[2].cluster = "general"
    /\ relevant_guides[1].score = relevant_guides[2].score

\* two guides of the sweep score the same
C17_SweepTieWitness ==
    /\ Searched
    /\ \E i \in DOMAIN relevant_guides : \E j \in DOMAIN relevant_guides :
          /\ i < j
          /\ relevant_guides[i].cluster = "general" /\ relevant_guides[j].cluster = "general"
          /\ relevant_guides[i].score = relevant_guides[j].score
    /\ guides[1].path = GuideRoot \o "guides/authorization.mdx"

\* the text extracted under a header of the list from the first guide
TopText(h) == Strip(SectionOfLines(SplitOn(relevant_guides[1].content, "\n"), h))

BlockOf(h) == "## " \o Replace(h, "## ", "") \o "\n\n" \o TopText(h) \o "\n\n"

Answered == Searched /\ relevant_guides # <<>>

\* the texts extracted under the headers of the list, in its order
TopTexts == [i \in DOMAIN HeadersFor(cluster) |-> TopText(HeadersFor(cluster)[i])] \o <<>>

\* where the section of each header with a text starts in the response, 0
\* when the response has no such section
BlockPlaces(texts) ==
    [i \in DOMAIN texts |->
        IF texts[i] = "" THEN 0
        ELSE Find(search_result,
                  "## " \o Replace(HeadersFor(cluster)[i], "## ", "") \o "\n\n"
                      \o texts[i] \o "\n\n")] \o <<>>

\* the headers with a text longer than `least` are sections of the response,
\* in the order of the list
SectionsInOrder(texts, places, least) ==
    \A i, j \in DOMAIN texts :
        /\ Len(texts[i]) > least => places[i] > 0
        /\ (i < j /\ Len(texts[i]) > least /\ Len(texts[j]) > least) => places[i] < places[j]

NoShortSection(texts, places) ==
    \A i, j \in DOMAIN texts :
        (Len(texts[i]) > MinSectionLen /\ Len(texts[j]) <= MinSectionLen) => places[j] = 0

NextRequest ==
    /\ pc \in {"guidance", "searched"}
    /\ pc' = "start"
    /\ UNCHANGED <<calcVars, serverVars, taskVars, intentVars, storeVars, guideVars, extractVars, schemaVars,
                   exampleVars, searchVars>>

NextSnapshot == RemoveFile \/ GetWorkflowGuidance \/ SearchDocumentation \/ NextRequest

SpecSnapshot == InitGuidance /\ [][NextSnapshot]_vars

\* C19: whatever happens to the guide files after startup, a request answers
\* with the text the request before it with the same argument answered
\* with, get_workflow_guidance and search_documentation alike.
C19_SameAnswerAfterDiskChange ==
    [][/\ (pc = "start" /\ pc' = "guidance" /\ guidance # None) => guidance' = guidance
       /\ (pc = "start" /\ pc' = "searched" /\ search_result # None)
             => search_result' = search_result]_vars


(***************************************************************************)
(* Concurrent invocations.  The server awaits tool.execute for each call   *)
(* on one event loop, and no execute of ping, search_documentation or      *)
(* get_endpoint_schema awaits anything: an invocation runs from its first   *)
(* statement to its return before another starts, and the invocations in   *)
(* flight may run in any order.  get_workflow_guidance is a plain method.   *)
(***************************************************************************)
MaxTasks == 2

PingText == "Pong! Ramp Developer MCP server is running"

Invocations ==
    {[tool |-> "ping", arg |-> NoArg],
     [tool |-> "search_documentation", arg |-> "oauth"],
     [tool |-> "search_documentation", arg |-> "overview intro"],
     [tool |-> "get_endpoint_schema", arg |-> CustomPath],
     [tool |-> "get_workflow_guidance", arg |-> "how do I set up OAuth"]}

\* the documents hold no path of a cluster the searches detect
TaskDocuments ==
    {<<[path |-> CustomPath, methods |-> <<Operation("get"), Operation("post")>>]>>,
     <<[path |-> "/developer/v1/users", methods |-> <<Operation("get")>>],
       [path |-> CustomPath, methods |-> <<Operation("put")>>]>>}

TaskDisks ==
    {d \in SearchDisks :
        /\ d["authorization.mdx"] \notin {"", NoFile}
        /\ d["guides/getting-started.mdx"] # NoFile
        /\ d["guides/bill-pay.mdx"] # NoFile
        /\ d["guides/authorization.mdx"] = NoFile}

\* mutant: the cluster detected is kept where the next invocation finds it
DetectedOrSeen(q, seen) == IF seen # None THEN seen ELSE detect_intent(q)

\* detected_cluster, a local of the invocation: the cluster an earlier
\* invocation detected (seen) is not read
Detected(q, seen) == detect_intent(q)

\* the cluster an invocation detects, None when it detects none or makes
\* no detection
DetectionOf(call, seen) ==
    CASE call.tool = "search_documentation" ->
            IF Strip(call.arg) = "" THEN None ELSE Detected(Strip(call.arg), seen)
      [] call.tool = "get_workflow_guidance" -> Detected(Lower(call.arg), seen)
      [] OTHER -> None

\* the text an invocation returns, read from the disk, the store, the
\* document and the index
ResultOf(call, detected, disk, store, doc, index) ==
    CASE call.tool = "ping" -> PingText
      [] call.tool = "search_documentation" ->
            IF Strip(call.arg) = "" THEN ProvideQueryText
            ELSE SearchAnswer(find_relevant_guides(Strip(call.arg), detected, disk, store),
                              Strip(call.arg), detected, doc)
      [] call.tool = "get_endpoint_schema" ->
            IF Strip(call.arg) = "" THEN ProvideText
            ELSE Answer(find_matching_endpoints(index, Strip(call.arg), None),
                        Strip(call.arg), None, TRUE, index).text
      [] call.tool = "get_workflow_guidance" ->
            guidance_text(IF detected = None THEN <<>>
                          ELSE extracted_sections(disk, store, ClusterData(detected).guides,
                                                  detected),
                          call.arg, detected)

InitTasks ==
    /\ pc = "start"
    /\ files \in TaskDisks
    /\ guides = LoadListed(files, SearchFiles, 1)
    /\ paths \in TaskDocuments
    /\ endpoints = extract_all_endpoints(paths)
    /\ endpoint = "" /\ method = NoArg /\ include_related = NoArg
    /\ matches = None /\ response = None
    /\ tasks \in [1..MaxTasks -> {[call |-> c, done |-> FALSE, result |-> None] :
                                     c \in Invocations}]
    /\ startup = [guides |-> guides, paths |-> paths, endpoints |-> endpoints]
    /\ IdleIntent /\ IdleGuide /\ IdleExtract /\ IdleExample /\ IdleSearch /\ IdleServer /\ IdleCalc

\* invocation i runs to its return: nothing of the knowledge base or of a
\* tool is assigned, the cluster detected and the result are its own
Return(i, detected) ==
    /\ tasks' = [tasks EXCEPT ![i].done = TRUE,
                              ![i].result = ResultOf(tasks[i].call, detected, files, guides,
                                                     paths, endpoints)]
    /\ UNCHANGED <<calcVars, serverVars, pc, query, storeVars, guideVars, extractVars, schemaVars,
                   exampleVars, searchVars, startup>>

Pending(i, tool) == ~tasks[i].done /\ tasks[i].call.tool = tool

\* PingTool.execute
Ping ==
    \E i \in DOMAIN tasks :
        /\ Pending(i, "ping")
        /\ Return(i, None)
        /\ UNCHANGED cluster

\* SearchDocumentationTool.execute
Search ==
    \E i \in DOMAIN tasks :
        /\ Pending(i, "search_documentation")
        /\ cluster' = DetectionOf(tasks[i].call, cluster)
        /\ Return(i, cluster')

\* GetEndpointSchemaTool.execute
Schema ==
    \E i \in DOMAIN tasks :
        /\ Pending(i, "get_endpoint_schema")
        /\ Return(i, None)
        /\ UNCHANGED cluster

\* RampKnowledgeBase.get_workflow_guidance
Guidance ==
    \E i \in DOMAIN tasks :
        /\ Pending(i, "get_workflow_guidance")
        /\ cluster' = DetectionOf(tasks[i].call, cluster)
        /\ Return(i, cluster')

NextTasks == Ping \/ Search \/ Schema \/ Guidance

SpecTasks == InitTasks /\ [][NextTasks]_vars

\* the result of a call that runs alone, first after startup
Alone(call) ==
    ResultOf(call, DetectionOf(call, None), files, startup.guides, startup.paths,
             startup.endpoints)

PyStr(s) == [type |-> "str", v |-> s]
PyInt == [type |-> "int", v |-> "7"]
PyNone == [type |-> "NoneType", v |-> "None"]
PyList == [type |-> "list", v |-> "['oauth', 'bills']"]
PyTrue == [type |-> "bool", v |-> "True"]
PyFalse == [type |-> "bool", v |-> "False"]

\* bool(value)
PyTruthy(value) ==
    CASE value.type = "str" -> value.v # ""
      [] value.type = "int" -> value.v # "0"
      [] value.type = "bool" -> value.v = "True"
      [] value.type = "NoneType" -> FALSE
      [] value.type = "list" -> value.v # "[]"

\* arguments.get(key, default)
Get(args, key, default) ==
    IF \E i \in DOMAIN args : args[i].key = key
    THEN args[CHOOSE i \in DOMAIN args : args[i].key = key].value
    ELSE default

\* repr of a list of str
ListRepr(items) == "[" \o Join([i \in DOMAIN items |-> "'" \o items[i] \o "'"], ", ") \o "]"

Returns(text, called, sent) ==
    [kind |-> "return", text |-> text, calls |-> called, sent |-> sent]

Raises(text, called, sent) ==
    [kind |-> "raise", text |-> text, calls |-> called, sent |-> sent]

\* value.attribute on a value that is no str
AttributeError(value, attribute) ==
    Raises("'" \o value.type \o "' object has no attribute '" \o attribute \o "'", <<>>, <<>>)

\* PingTool.execute
ping_execute(args) == Returns(PingText, <<>>, <<>>)

\* mutant: the query is tested as it was given, not stripped
SearchExecuteUnstripped(args, disk, store, doc) ==
    LET given == Get(args, "query", PyStr(""))
    IN IF given.type # "str" THEN AttributeError(given, "strip")
       ELSE IF given.v = "" THEN Returns(ProvideQueryText, <<>>, <<>>)
       ELSE IF find_relevant_guides(Strip(given.v), detect_intent(Strip(given.v)), disk, store)
                  = <<>>
       THEN Returns(NothingFoundText(Strip(given.v)),
                    <<"detect_intent", "_find_relevant_guides">>, <<>>)
       ELSE Returns(ResultOf([tool |-> "search_documentation", arg |-> given.v],
                             detect_intent(Strip(given.v)), disk, store, doc, <<>>),
                    <<"detect_intent", "_find_relevant_guides", "_extract_relevant_content">>,
                    <<>>)

\* SearchDocumentationTool.execute
search_execute(args, disk, store, doc) ==
    LET given == Get(args, "query", PyStr(""))
    IN IF given.type # "str" THEN AttributeError(given, "strip")
       ELSE IF Strip(given.v) = "" THEN Returns(ProvideQueryText, <<>>, <<>>)
       ELSE IF find_relevant_guides(Strip(given.v), detect_intent(Strip(given.v)), disk, store)
                  = <<>>
       THEN Returns(NothingFoundText(Strip(given.v)),
                    <<"detect_intent", "_find_relevant_guides">>, <<>>)
       ELSE Returns(ResultOf([tool |-> "search_documentation", arg |-> given.v],
                             detect_intent(Strip(given.v)), disk, store, doc, <<>>),
                    <<"detect_intent", "_find_relevant_guides", "_extract_relevant_content">>,
                    <<>>)

\* GetEndpointSchemaTool.execute once the endpoint is stripped: the method is
\* read before the endpoint is tested
SchemaWith(args, path, index) ==
    LET given == Get(args, "method", PyStr(""))
        http_method == IF PyTruthy(given) THEN Upper(given.v) ELSE None
        found == find_matching_endpoints(index, path, http_method)
    IN IF PyTruthy(given) /\ given.type # "str" THEN AttributeError(given, "upper")
       ELSE IF path = "" THEN Returns(ProvideText, <<>>, <<>>)
       ELSE Returns(Answer(found, path, http_method,
                           PyTruthy(Get(args, "include_related", PyTrue)), index).text,
                    <<"_find_matching_endpoints",
                      IF found = <<>> THEN "_find_similar_endpoints"
                      ELSE "_format_endpoint_schemas">>, <<>>)

\* GetEndpointSchemaTool.execute
schema_execute(args, index) ==
    LET given == Get(args, "endpoint", PyStr(""))
    IN IF given.type # "str" THEN AttributeError(given, "strip")
       ELSE SchemaWith(args, Strip(given.v) \o "", index)

\* what client.get does: a response with a status code, or an exception
Status(code) == [kind |-> "status", code |-> code, text |-> ""]
Timeout == [kind |-> "timeout", code |-> 0, text |-> ""]
RequestError == [kind |-> "request error", code |-> 0, text |-> ""]
OtherFault == [kind |-> "fault", code |-> 0, text |-> "client closed"]

\* response.raise_for_status(): nothing but a 2xx status passes
IsSuccess(code) == code \div 100 = 2

\* SubmitFeedbackTool._submit_feedback_to_ramp, given what client.get does
submit_feedback_to_ramp(tool, reply) ==
    CASE reply.kind = "status" /\ IsSuccess(reply.code) ->
            [kind |-> "return",
             text |-> "Feedback submitted successfully"
                      \o (IF tool # "" THEN " (regarding " \o tool \o " tool)" ELSE "")
                      \o "!"]
      [] reply.kind = "status" /\ ~IsSuccess(reply.code) ->
            [kind |-> "return",
             text |-> IF reply.code = 400
                      THEN "Invalid feedback format. Please check your message and try again."
                      ELSE IF reply.code >= 500
                      THEN "Ramp's feedback service is temporarily unavailable. "
                           \o "Please try again later."
                      ELSE "HTTP error " \o ToString(reply.code) \o ". Please try again later."]
      [] reply.kind = "timeout" ->
            [kind |-> "return",
             text |-> "Request timed out. Please check your internet connection and try again."]
      [] reply.kind = "request error" ->
            [kind |-> "return",
             text |-> "Network error. Please check your internet connection and try again."]
      [] reply.kind = "fault" -> [kind |-> "raise", text |-> reply.text]

ValidationText ==
    "Feedback must be at least 10 characters long and less than 1000 characters."

MinFeedback == 10
MaxFeedback == 1000

\* mutant: a feedback of exactly ten or a thousand characters is turned down
FeedbackExecuteExclusive(args, reply) ==
    LET given == Get(args, "feedback", PyStr(""))
        tool == Get(args, "tool_name", PyStr(""))
        submitted == submit_feedback_to_ramp(Strip(tool.v), reply)
    IN IF given.type # "str" THEN AttributeError(given, "strip")
       ELSE IF tool.type # "str" THEN AttributeError(tool, "strip")
       ELSE IF Len(Strip(given.v)) <= MinFeedback \/ Len(Strip(given.v)) >= MaxFeedback
       THEN Returns(ValidationText, <<>>, <<>>)
       ELSE Returns(IF submitted.kind = "return" THEN submitted.text
                    ELSE "Unexpected error submitting feedback: " \o submitted.text,
                    <<"_submit_feedback_to_ramp">>,
                    <<[feedback |-> Strip(given.v), reply |-> reply]>>)

\* SubmitFeedbackTool.execute, given what client.get does if it is called;
\* a request is kept with what client.get did
feedback_execute(args, reply) ==
    LET given == Get(args, "feedback", PyStr(""))
        tool == Get(args, "tool_name", PyStr(""))
        submitted == submit_feedback_to_ramp(Strip(tool.v), reply)
    IN IF given.type # "str" THEN AttributeError(given, "strip")
       ELSE IF tool.type # "str" THEN AttributeError(tool, "strip")
       ELSE IF Len(Strip(given.v)) < MinFeedback \/ Len(Strip(given.v)) > MaxFeedback
       THEN Returns(ValidationText, <<>>, <<>>)
       ELSE Returns(IF submitted.kind = "return" THEN submitted.text
                    ELSE "Unexpected error submitting feedback: " \o submitted.text,
                    <<"_submit_feedback_to_ramp">>,
                    <<[feedback |-> Strip(given.v), reply |-> reply]>>)

\* the tools list of server.py after module initialization: the four tools,
\* or none when initialize_knowledge_base or a tool's __init__ raised
ToolNames == <<"ping", "search_documentation", "submit_feedback", "get_endpoint_schema">>

\* mutant: ping is registered before anything can fail
RegisteredPingFirst(file) == IF file = "valid" THEN ToolNames ELSE <<"ping">>

Registered(file) == IF file = "valid" THEN ToolNames ELSE <<>>

\* list_tools()
list_tools(lookup) == lookup

UnknownToolText(tool, lookup) ==
    "Unknown tool: " \o tool \o ". Available tools: " \o ListRepr(lookup)

\* tool.execute(arguments) of the tool registered under a name
execute(tool, args, disk, store, doc, index, reply) ==
    CASE tool = "ping" -> ping_execute(args)
      [] tool = "search_documentation" -> search_execute(args, disk, store, doc)
      [] tool = "submit_feedback" -> feedback_execute(args, reply)
      [] tool = "get_endpoint_schema" -> schema_execute(args, index)

\* the except branch of call_tool: the debug lines are added for the search
\* tool when the arguments are not empty, and slice the 'content' argument
Handled(tool, args, ran) ==
    LET given == Get(args, "content", PyStr(""))
        error_msg == "Error executing tool '" \o tool \o "': " \o ran.text
    IN IF tool = "search_documentation" /\ args # <<>>
       THEN (IF given.type \notin {"str", "list"}
             THEN Raises("'" \o given.type \o "' object is not subscriptable",
                         ran.calls, ran.sent)
             ELSE Returns(error_msg \o "\n\nContent preview: "
                          \o (IF given.type = "str" THEN Prefix(given.v, 100) ELSE given.v)
                          \o "..."
                          \o "\nArguments: "
                          \o ListRepr([i \in DOMAIN args |-> args[i].key]),
                          ran.calls, ran.sent))
       ELSE Returns(error_msg, ran.calls, ran.sent)

\* call_tool(name, arguments), given what execute did
Settled(tool, args, ran) == IF ran.kind = "return" THEN ran ELSE Handled(tool, args, ran)

call_tool(lookup, tool, args, disk, store, doc, index, reply) ==
    IF tool \notin Range(lookup) THEN Returns(UnknownToolText(tool, lookup), <<>>, <<>>)
    ELSE Settled(tool, args, execute(tool, args, disk, store, doc, index, reply))

(***************************************************************************)
(* The server: started with the OpenAPI file valid, missing or invalid,    *)
(* then called once with a tool name and an arguments mapping.              *)
(***************************************************************************)
Arg(key, value) == [key |-> key, value |-> value]

Padded(n) == "  " \o Body(n) \o "\n"

ArgumentLists ==
    {<<>>,
     <<Arg("query", PyStr("oauth"))>>,
     <<Arg("query", PyStr("xyzzy"))>>,
     <<Arg("query", PyStr(" \n "))>>,
     <<Arg("query", PyStr("")), Arg("content", PyInt)>>,
     <<Arg("query", PyInt)>>,
     <<Arg("content", PyStr(Body(120))), Arg("query", PyNone)>>,
     <<Arg("query", PyList), Arg("content", PyList)>>,
     <<Arg("query", PyInt), Arg("content", PyInt)>>,
     <<Arg("query", PyList), Arg("content", PyNone)>>,
     <<Arg("query", PyStr("oauth")), Arg("content", PyInt)>>,
     <<Arg("endpoint", PyStr(CustomPath))>>,
     <<Arg("endpoint", PyStr(" " \o CustomPath)), Arg("method", PyStr("put"))>>,
     <<Arg("endpoint", PyStr(CustomPath)), Arg("method", PyNone),
       Arg("include_related", PyFalse)>>,
     <<Arg("endpoint", PyStr("/nope"))>>,
     <<Arg("endpoint", PyStr(""))>>,
     <<Arg("endpoint", PyStr("  ")), Arg("method", PyStr("get"))>>,
     <<Arg("method", PyStr("get"))>>,
     <<Arg("endpoint", PyStr("")), Arg("method", PyInt)>>,
     <<Arg("endpoint", PyStr(CustomPath)), Arg("method", PyInt)>>,
     <<Arg("endpoint", PyInt)>>,
     <<Arg("endpoint", PyNone), Arg("content", PyInt)>>,
     <<Arg("feedback", PyStr(Padded(MinFeedback - 1)))>>,
     <<Arg("feedback", PyStr(Padded(MinFeedback)))>>,
     <<Arg("feedback", PyStr(Padded(MinFeedback))), Arg("tool_name", PyStr(" ping "))>>,
     <<Arg("feedback", PyStr(Padded(MaxFeedback)))>>,
     <<Arg("feedback", PyStr(Padded(MaxFeedback + 1)))>>,
     <<Arg("feedback", PyInt)>>,
     <<Arg("feedback", PyStr(Padded(MinFeedback))), Arg("tool_name", PyNone)>>}

CallNames == Range(ToolNames) \cup {"get_workflow_guidance"}

Replies ==
    {Status(200), Status(204), Status(302), Status(400), Status(404), Status(500),
     Status(503), Timeout, RequestError, OtherFault}

InitServer ==
    /\ pc = "start"
    /\ openapi_file \in {"valid", "missing", "invalid"}
    /\ tool_lookup = Registered(openapi_file)
    /\ files \in TaskDisks
    /\ guides = IF openapi_file = "valid" THEN LoadListed(files, SearchFiles, 1) ELSE <<>>
    /\ paths = IF openapi_file = "valid"
               THEN <<[path |-> CustomPath, methods |-> <<Operation("get"), Operation("put")>>]>>
               ELSE <<>>
    /\ endpoints = extract_all_endpoints(paths)
    /\ endpoint = "" /\ method = NoArg /\ include_related = NoArg
    /\ matches = None /\ response = None
    /\ call_name \in CallNames
    /\ arguments \in ArgumentLists
    /\ outcome = None /\ calls = <<>> /\ requests = <<>>
    /\ IdleIntent /\ IdleGuide /\ IdleExtract /\ IdleExample /\ IdleSearch /\ IdleTasks /\ IdleCalc

\* what call_tool does with the call at hand, whatever client.get does
Ended(ran) ==
    /\ pc' = "called"
    /\ outcome' = [kind |-> ran.kind, text |-> ran.text]
    /\ calls' = ran.calls
    /\ requests' = requests \o ran.sent
    /\ UNCHANGED <<calcVars, openapi_file, tool_lookup, call_name, arguments, intentVars, storeVars,
                   guideVars, extractVars, schemaVars, exampleVars, searchVars, taskVars>>

CallTool ==
    /\ pc = "start"
    /\ \E reply \in Replies :
          Ended(call_tool(tool_lookup, call_name, arguments, files, guides, paths,
                          endpoints, reply))

\* the client asks for the tools
ListTools ==
    /\ pc = "start"
    /\ pc' = "listed"
    /\ outcome' = [kind |-> "return", text |-> ListRepr(list_tools(tool_lookup))]
    /\ UNCHANGED <<calcVars, openapi_file, tool_lookup, call_name, arguments, calls, requests,
                   intentVars, storeVars, guideVars, extractVars, schemaVars, exampleVars,
                   searchVars, taskVars>>

\* the next request: with another name and other arguments
NextCall ==
    /\ pc \in {"called", "listed"}
    /\ pc' = "start"
    /\ call_name' \in CallNames
    /\ arguments' \in ArgumentLists
    /\ outcome' = None /\ calls' = <<>> /\ requests' = <<>>
    /\ UNCHANGED <<calcVars, openapi_file, tool_lookup, intentVars, storeVars, guideVars,
                   extractVars, schemaVars, exampleVars, searchVars, taskVars>>

NextServer == CallTool \/ ListTools \/ NextCall

SpecServer == InitServer /\ [][NextServer]_vars


(***************************************************************************)
(* Claims about the entry point (SpecServer).                              *)
(***************************************************************************)
\* C21: whatever the tool name and the arguments, call_tool ends by
\* returning a text; it never raises.
C21_NothingThrows == pc = "called" => outcome.kind = "return"


\* a registered tool was called
Called(tool) == pc = "called" /\ call_name = tool /\ tool \in Range(tool_lookup)

\* the argument is missing, empty or whitespace-only
Blank(key) ==
    /\ Get(arguments, key, PyStr("")).type = "str"
    /\ Strip(Get(arguments, key, PyStr("")).v) = ""

Provided(text) == outcome = [kind |-> "return", text |-> text] /\ calls = <<>>

\* 'method' is absent, falsy or a string
MethodReadable ==
    \/ ~PyTruthy(Get(arguments, "method", PyStr("")))
    \/ Get(arguments, "method", PyStr("")).type = "str"

\* C22 as stated: with 'query' (search_documentation) or 'endpoint'
\* (get_endpoint_schema) missing, empty or whitespace-only, the answer is
\* the tool's 'please provide' message and no method of the tool was called.
C22_ProvideMessage ==
    /\ (Called("search_documentation") /\ Blank("query")) => Provided(ProvideQueryText)
    /\ (Called("get_endpoint_schema") /\ Blank("endpoint")) => Provided(ProvideText)

\* C22, amended: the same, for get_endpoint_schema when 'method' is absent,
\* falsy or a string; with another 'method' the answer is call_tool's error
\* text, and no method of the tool was called either.
C22_ProvideMessageOrMethodError ==
    /\ (Called("search_documentation") /\ Blank("query")) => Provided(ProvideQueryText)
    /\ (Called("get_endpoint_schema") /\ Blank("endpoint") /\ MethodReadable)
          => Provided(ProvideText)
    /\ (Called("get_endpoint_schema") /\ Blank("endpoint") /\ ~MethodReadable)
          => Provided("Error executing tool 'get_endpoint_schema': '"
                      \o Get(arguments, "method", PyStr("")).type
                      \o "' object has no attribute 'upper'")

\* a whitespace-only query was answered with the message
C22_Witness ==
    /\ Called("search_documentation")
    /\ Get(arguments, "query", PyStr("")).v = " \n "
    /\ Provided(ProvideQueryText)

\* a call without 'endpoint' but with a method was answered with the message
C22_MissingWitness ==
    /\ Called("get_endpoint_schema")
    /\ arguments = <<Arg("method", PyStr("get"))>>
    /\ Provided(ProvideText)


\* the feedback as submit_feedback reads it, when it is a string
Feedback == Strip(Get(arguments, "feedback", PyStr("")).v)

ToolName == Strip(Get(arguments, "tool_name", PyStr("")).v)

FeedbackIsText == Get(arguments, "feedback", PyStr("")).type = "str"

ToolNameIsText == Get(arguments, "tool_name", PyStr("")).type = "str"

TooShortOrLong == Len(Feedback) < MinFeedback \/ Len(Feedback) > MaxFeedback

\* exactly one request was made, with the feedback
OneRequest == Len(requests) = 1 /\ requests[1].feedback = Feedback

SuccessText ==
    "Feedback submitted successfully"
    \o (IF ToolName # "" THEN " (regarding " \o ToolName \o " tool)" ELSE "") \o "!"

InvalidFormatText == "Invalid feedback format. Please check your message and try again."

UnavailableText ==
    "Ramp's feedback service is temporarily unavailable. Please try again later."

HttpErrorText(code) == "HTTP error " \o ToString(code) \o ". Please try again later."

TimedOutText == "Request timed out. Please check your internet connection and try again."

NetworkErrorText == "Network error. Please check your internet connection and try again."

\* the text for what the one request did, among the six of the claim
SixOutcomes(reply) ==
    CASE reply.kind = "status" /\ reply.code \in 200..299 -> SuccessText
      [] reply.kind = "status" /\ reply.code = 400 -> InvalidFormatText
      [] reply.kind = "status" /\ reply.code >= 500 -> UnavailableText
      [] reply.kind = "status" /\ reply.code \notin 200..299 /\ reply.code # 400
            /\ reply.code < 500 -> HttpErrorText(reply.code)
      [] reply.kind = "timeout" -> TimedOutText
      [] reply.kind = "request error" -> NetworkErrorText
      [] OTHER -> None

\* C30 as stated: no request and the validation message for a trimmed
\* feedback of fewer than 10 or more than 1000 characters; otherwise one
\* request and the one of the six outcome texts that fits what it did.
C30_SixOutcomes ==
    (Called("submit_feedback") /\ FeedbackIsText) =>
        IF TooShortOrLong
        THEN requests = <<>> /\ outcome = [kind |-> "return", text |-> ValidationText]
        ELSE /\ OneRequest
             /\ outcome = [kind |-> "return", text |-> SixOutcomes(requests[1].reply)]

\* C30, amended: the same when 'tool_name' is absent or a string, with a
\* seventh text for a request that raised anything else; a 'tool_name' that
\* is no string ends the call before the length is tested, without a request.
C30_SevenOutcomes ==
    /\ (Called("submit_feedback") /\ FeedbackIsText /\ ToolNameIsText) =>
          IF TooShortOrLong
          THEN requests = <<>> /\ outcome = [kind |-> "return", text |-> ValidationText]
          ELSE /\ OneRequest
               /\ outcome.kind = "return"
               /\ outcome.text = IF requests[1].reply.kind = "fault"
                                 THEN "Unexpected error submitting feedback: "
                                      \o requests[1].reply.text
                                 ELSE SixOutcomes(requests[1].reply)
    /\ (Called("submit_feedback") /\ ~(FeedbackIsText /\ ToolNameIsText)) =>
          /\ requests = <<>>
          /\ outcome.kind = "return"
          /\ StartsWith(outcome.text, "Error executing tool 'submit_feedback': ")

\* a feedback of exactly ten characters was sent once and the service
\* answered 503
C30_Witness ==
    /\ Called("submit_feedback")
    /\ Len(Feedback) = MinFeedback
    /\ OneRequest
    /\ requests[1].reply = Status(503)
    /\ outcome.text = UnavailableText

\* a feedback of 1001 characters was turned down without a request
C30_LongWitness ==
    /\ Called("submit_feedback")
    /\ Len(Feedback) = MaxFeedback + 1
    /\ requests = <<>>
    /\ outcome.text = ValidationText


\* C29: started with the OpenAPI file missing or invalid the server has no
\* tool from then on: list_tools answers with the empty list and call_tool
\* answers every name, 'ping' too, with the 'Unknown tool' text; started
\* with a valid file it has the four tools from then on.
C29_StartupFailure ==
    IF openapi_file = "valid"
    THEN /\ tool_lookup
               = <<"ping", "search_documentation", "submit_feedback", "get_endpoint_schema">>
         /\ pc = "listed" => outcome.text = ListRepr(tool_lookup)
    ELSE /\ tool_lookup = <<>>
         /\ pc = "listed" => outcome = [kind |-> "return", text |-> "[]"]
         /\ pc = "called" =>
               /\ outcome = [kind |-> "return",
                             text |-> "Unknown tool: " \o call_name \o ". Available tools: []"]
               /\ calls = <<>>
               /\ requests = <<>>

\* after a failed startup ping was called with arguments and answered as
\* an unknown tool
C29_Witness ==
    /\ openapi_file \in {"missing", "invalid"}
    /\ pc = "called"
    /\ call_name = "ping"
    /\ arguments # <<>>
    /\ outcome.text = "Unknown tool: ping. Available tools: []"


(***************************************************************************)
(* The query normalizer on its own: texts of up to MaxWords words, some of  *)
(* them keys of the synonym table, words of noise phrases, or words that    *)
(* hold one of these inside, with one blank or a longer run between them.   *)
(***************************************************************************)
MaxWords == 2

MaxLength == 24

NormWords ==
    {"configure", "setup", "routes", "route", "provisioning", "the", "a", "another",
     "api", "with", "ramp", "x", "thethe", "bills"}

NormTexts ==
    {lead \o Join(s, gap) :
        lead \in {"", " "}, gap \in {" ", " \t "},
        s \in UNION {[1..n -> NormWords] : n \in 1..MaxWords}}

InitNormalize ==
    /\ pc = "start"
    /\ query \in NormTexts
    /\ cluster = None
    /\ normalized = None /\ filenames = <<>> /\ relevance = <<>>
    /\ IdleStore /\ IdleGuide /\ IdleExtract /\ IdleSchema /\ IdleExample /\ IdleSearch
    /\ IdleTasks /\ IdleServer

\* RampKnowledgeBase._preprocess_query(query)
PreprocessQuery ==
    /\ pc = "start"
    /\ normalized' = preprocess_query(query)
    /\ pc' = "normalized"
    /\ UNCHANGED <<filenames, relevance, intentVars, storeVars, guideVars, extractVars,
                   schemaVars, exampleVars, searchVars, taskVars, serverVars>>

\* the caller normalizes what the normalizer returned, while that is short
PreprocessAgain ==
    /\ pc = "normalized"
    /\ Len(normalized) <= MaxLength
    /\ query' = normalized
    /\ normalized' = None
    /\ pc' = "start"
    /\ UNCHANGED <<cluster, filenames, relevance, storeVars, guideVars, extractVars,
                   schemaVars, exampleVars, searchVars, taskVars, serverVars>>

NextNormalize == PreprocessQuery \/ PreprocessAgain

SpecNormalize == InitNormalize /\ [][NextNormalize]_vars

(***************************************************************************)
(* Claims about the normalizer (SpecNormalize).                            *)
(***************************************************************************)
\* the entries of a table of <<old, new>> pairs applied to a text one after
\* the other, each once, to what the entry before it left
ReplacedBy(text, pair) == IF text = "" THEN "" ELSE Replace(text, pair[1], pair[2])

RECURSIVE AppliedFirst(_, _, _)
AppliedFirst(table, text, n) ==
    IF n = 0 THEN text ELSE ReplacedBy(AppliedFirst(table, text, n - 1), table[n])

Applied(table, text) == AppliedFirst(table, text, Len(table))

NoisePairs == [i \in DOMAIN noise_words |-> <<noise_words[i], " ">>]

Collapsed(text) == Join(Split(text), " ")

\* C25: the normalizer returns the whitespace-collapsed text left by the
\* noise phrases, each removed once in table order, from the text left by
\* the synonyms, each replaced once in table order.
C25_NormalizerOrder ==
    pc = "normalized" => normalized = Collapsed(Applied(NoisePairs, Applied(synonyms, query)))

\* 'route' became 'api', which the noise phrases then removed
C25_Witness == pc = "normalized" /\ query = "x route" /\ normalized = "x"

\* the 'the' the removal of ' the' left behind a blank was not removed
C25_OnceWitness == pc = "normalized" /\ query = "x thethe" /\ normalized = "x the"

\* whole words of a text
WordsOf(text) == Range(Split(text))

\* a phrase stands in a text as whole words
HasPhrase(text, phrase) == Contains(" " \o text \o " ", " " \o Strip(phrase) \o " ")

\* no key of the synonym table and no noise phrase is among the words
NoTokens(text) ==
    /\ \A i \in DOMAIN synonyms : ~HasPhrase(text, synonyms[i][1])
    /\ \A i \in DOMAIN noise_words : ~HasPhrase(text, noise_words[i])

\* C26: a text that is whitespace-collapsed and has no synonym key and no
\* noise phrase among its words is returned as it is; what is returned has
\* no whitespace at either end and none but single blanks inside.
C26_Idempotent ==
    pc = "normalized" =>
        /\ (Collapsed(query) = query /\ NoTokens(query)) => normalized = query
        /\ Collapsed(normalized) = normalized


(***************************************************************************)
(* _calculate_relevance on its own: one query and one guide text scored     *)
(* under two filenames.                                                     *)
(***************************************************************************)
RelevanceQueries ==
    {"oauth", "OAuth oauth", "oauth api", "bill payment", "getting started oauth",
     "guides mdx overview", "hello", "card webhook"}

RelevanceTexts ==
    {"", "oauth api overview intro", "Bill payment bill overview", "getting getting started"}

RelevanceFiles ==
    {"authorization.mdx", "data/developer-api/guides/getting-started.mdx",
     "data/developer-api/guides/bill-pay.mdx", "data/developer-api/guides/OAuth.mdx",
     "data/developer-api/webhooks.mdx", "notes.txt"}

InitRelevance ==
    /\ pc = "start"
    /\ query \in RelevanceQueries
    /\ cluster = None
    /\ content \in RelevanceTexts
    /\ header = "" /\ section = None
    /\ normalized = None
    /\ filenames \in RelevanceFiles \X RelevanceFiles
    /\ relevance = <<>>
    /\ IdleStore /\ IdleGuide /\ IdleSchema /\ IdleExample /\ IdleSearch
    /\ IdleTasks /\ IdleServer

\* SearchDocumentationTool._calculate_relevance(query, content, filename),
\* once for each filename
CalculateRelevance ==
    /\ pc = "start"
    /\ relevance' = <<calculate_relevance(query, content, filenames[1]),
                      calculate_relevance(query, content, filenames[2])>>
    /\ pc' = "scored"
    /\ UNCHANGED <<normalized, filenames, intentVars, storeVars, guideVars, extractVars,
                   schemaVars, exampleVars, searchVars, taskVars, serverVars>>

NextRelevance == CalculateRelevance

SpecRelevance == InitRelevance /\ [][NextRelevance]_vars

(***************************************************************************)
(* Claims about the relevance score (SpecRelevance).                       *)
(***************************************************************************)
QueryWordList == Split(Lower(query))

\* how many of the query's words the lowercased filename holds
WordsInName(filename) ==
    Cardinality({i \in DOMAIN QueryWordList : Find(Lower(filename), QueryWordList[i]) > 0})

\* how many words the query and the text share
WordsShared == Cardinality(WordsOf(Lower(query)) \cap WordsOf(Lower(content)))

BoostTable ==
    UNION {{<<keyword_boosts[i].keyword, keyword_boosts[i].files[j]>> :
                j \in DOMAIN keyword_boosts[i].files} : i \in DOMAIN keyword_boosts}

\* how many pairs of the boost table have the keyword in the query and the
\* file in the filename
BoostPairs(filename) ==
    Cardinality({p \in BoostTable :
                    Find(Lower(query), p[1]) > 0 /\ Find(Lower(filename), p[2]) > 0})

\* 0.3, 0.1 and 0.5 in tenths
ScoreInTenths(filename) == 3 * WordsInName(filename) + WordsShared + 5 * BoostPairs(filename)

\* the double v is tenths / 10 to within 2^-26
IsTenths(v, tenths) == v[1] * 5 - tenths * 2^25 \in -5..0

\* C27: the score is 0.3 for each query word the lowercased filename holds,
\* plus 0.1 for each word the query and the text share, plus 0.5 for each
\* pair of the boost table; of two filenames with the same boosts, the one
\* that holds a query word scores more than the one that holds none.
C27_RelevanceScore ==
    pc = "scored" =>
        /\ \A k \in 1..2 : IsTenths(relevance[k], ScoreInTenths(filenames[k]))
        /\ (/\ WordsInName(filenames[1]) > 0
            /\ WordsInName(filenames[2]) = 0
            /\ BoostPairs(filenames[1]) = BoostPairs(filenames[2]))
              => FloatLess(relevance[2], relevance[1])

\* two boosted files and a text that shares a word with the query: one
\* filename holds two of the query's words, the other none
C27_Witness ==
    /\ pc = "scored"
    /\ WordsInName(filenames[1]) = 2
    /\ WordsInName(filenames[2]) = 0
    /\ BoostPairs(filenames[1]) = 2
    /\ BoostPairs(filenames[2]) = 2
    /\ WordsShared > 0
    /\ FloatLess(relevance[2], relevance[1])

\* a word the query repeats is counted for each time it stands there
C27_RepeatWitness ==
    /\ pc = "scored"
    /\ query = "OAuth oauth"
    /\ WordsInName(filenames[1]) = 2
    /\ WordsShared = 1


(***************************************************************************)
(* _load_guides on its own: the directory holds files that load and files  *)
(* that raise inside the loop, listed by rglob in either order.            *)
(***************************************************************************)
LoadFiles == <<"authorization.mdx", "guides/getting-started.mdx", "guides/bill-pay.mdx">>

\* texts frontmatter.load accepts: no front matter, a front matter block,
\* a first boundary that is never closed, an empty file
GoodTexts ==
    {"## Overview\nintro", "---\ntitle: Auth\n---\n## Overview\nbody",
     "---\nnever closed", ""}

\* a file open raises on, and a front matter block the YAML parser raises on
FailingTexts == {Unreadable, "---\ntitle: [Auth\n---\n## Overview\nbody"}

LoadDisks == [Range(LoadFiles) -> GoodTexts \cup FailingTexts \cup {NoFile}]

InitLoad ==
    /\ pc = "start"
    /\ query = ""
    /\ cluster = None
    /\ files \in LoadDisks
    /\ guides = <<>>
    /\ IdleGuide /\ IdleExtract /\ IdleSchema /\ IdleExample /\ IdleSearch
    /\ IdleTasks /\ IdleServer /\ IdleCalc

\* RampKnowledgeBase._load_guides()
LoadGuides ==
    /\ pc = "start"
    /\ \E listing \in {LoadFiles, Reversed(LoadFiles)} :
          guides' = LoadListed(files, listing, 1)
    /\ pc' = "loaded"
    /\ UNCHANGED <<calcVars, serverVars, taskVars, searchVars, exampleVars, intentVars,
                   files, guideVars, extractVars, schemaVars>>

NextLoad == LoadGuides

SpecLoad == InitLoad /\ [][NextLoad]_vars

(***************************************************************************)
(* Claims about guide loading (SpecLoad).                                  *)
(***************************************************************************)
LoadedPaths == {guides[i].path : i \in DOMAIN guides}

\* C23: whichever files fail to open or parse, loading completes and the
\* store holds exactly the files that parsed, each once.
C23_LoadIsolation ==
    pc = "loaded" =>
        /\ \A f \in Range(LoadFiles) : (GuideRoot \o f) \in LoadedPaths <=> files[f] \in GoodTexts
        /\ Len(guides) = Cardinality({f \in Range(LoadFiles) : files[f] \in GoodTexts})

\* one file cannot be opened, one has front matter the parser rejects, and
\* the third, with a front matter block, is loaded
C23_Witness ==
    /\ pc = "loaded"
    /\ files["authorization.mdx"] = Unreadable
    /\ files["guides/bill-pay.mdx"] \in FailingTexts \ {Unreadable}
    /\ guides = <<[path |-> "data/developer-api/guides/getting-started.mdx",
                   content |-> "Overview\nbody"]>>


(***************************************************************************)
(* _find_guide_by_filename on its own, over the store loaded from the      *)
(* directory it reads.                                                     *)
(***************************************************************************)
LookupTexts ==
    {"## Overview\nintro", "---\ntitle: Auth\n---\n## Setup\nbody", Unreadable, NoFile}

LookupNames ==
    {"authorization.mdx", "guides/bill-pay.mdx", "bill-pay.mdx", "getting", ".mdx",
     "missing.mdx"}

InitLookup ==
    /\ pc = "start"
    /\ query = ""
    /\ cluster = None
    /\ files \in [Range(LoadFiles) -> LookupTexts]
    /\ guides \in {LoadListed(files, LoadFiles, 1), LoadListed(files, Reversed(LoadFiles), 1)}
    /\ content = None
    /\ header = "" /\ section = None
    /\ normalized = None
    /\ filenames \in {<<f>> : f \in LookupNames}
    /\ relevance = <<>>
    /\ IdleGuide /\ IdleSchema /\ IdleExample /\ IdleSearch /\ IdleTasks /\ IdleServer

\* RampKnowledgeBase._find_guide_by_filename(filename)
FindGuideByFilename ==
    /\ pc = "start"
    /\ content' = find_guide_by_filename(files, guides, filenames[1])
    /\ pc' = "found"
    /\ UNCHANGED <<calcVars, serverVars, taskVars, searchVars, exampleVars, intentVars,
                   storeVars, guideVars, header, section, schemaVars>>

NextLookup == FindGuideByFilename

SpecLookup == InitLookup /\ [][NextLookup]_vars

(***************************************************************************)
(* Claims about guide lookup (SpecLookup).                                 *)
(***************************************************************************)
\* the text of the file a loaded guide was read from
SourceOf(path) == files[From(path, Len(GuideRoot) + 1)]

ExactGuides == {i \in DOMAIN guides : guides[i].path = GuideRoot \o filenames[1]}

ContainingGuides == {i \in DOMAIN guides : Find(guides[i].path, filenames[1]) > 0}

\* C24: the lookup returns the raw source text of the guide whose identifier
\* matches exactly, else the raw source text of the first loaded guide whose
\* identifier contains the filename, else nothing.
C24_RawSource ==
    pc = "found" =>
        IF ExactGuides # {} THEN \E i \in ExactGuides : content = SourceOf(guides[i].path)
        ELSE IF ContainingGuides # {}
             THEN \E i \in ContainingGuides :
                     /\ \A j \in ContainingGuides : i <= j
                     /\ content = SourceOf(guides[i].path)
        ELSE content = None

\* the part of C24 the lookup keeps: which guide answers
C24_WhichGuide ==
    pc = "found" =>
        IF ExactGuides # {} THEN \E i \in ExactGuides : content = SourceOf(guides[i].path)
        ELSE IF ContainingGuides # {}
             THEN \E i \in ContainingGuides :
                     /\ \A j \in ContainingGuides : i <= j
                     /\ content = guides[i].content
        ELSE content = None

\* the fallback answers with a text whose header line has lost its marks
C24_FallbackReached ==
    /\ pc = "found"
    /\ filenames[1] = "bill-pay.mdx"
    /\ files["guides/bill-pay.mdx"] = "## Overview\nintro"
    /\ content = "Overview\nintro"


(***************************************************************************)
(* _extract_key_sections on its own: guides of two or three '## ' blocks   *)
(* after an optional preamble, for a cluster with and without extras.      *)
(***************************************************************************)
SplitHeadings == {"## Overview", "## Custom topic", "  ## Indented topic", "## Bill Pay API"}

\* block texts around the threshold, and short ones followed by a divider
\* or a title line, where a named section ends and a '## ' block does not
SplitBodies ==
    {"short", Body(MinSectionLen), Body(MinSectionLen + 1),
     "short\n---\n" \o Body(60), "short\n# Title\n" \o Body(60)}

SplitBlocks == {h \o "\n" \o b : h \in SplitHeadings, b \in SplitBodies}

SecondBlocks ==
    {h \o "\n" \o b : h \in {"## Overview", "## Custom topic"},
                      b \in {"short", Body(MinSectionLen + 1)}}

SplitDocs ==
    {pre \o first \o "\n" \o second \o last :
        pre \in {"", "preamble\n"}, first \in SplitBlocks, second \in SecondBlocks,
        last \in {"", "\n## Last\n\n" \o Body(55) \o "\n"}}

InitSplit ==
    /\ pc = "start"
    /\ query = ""
    /\ cluster \in {"ap_workflow", "user_management"}
    /\ content \in SplitDocs
    /\ header = "" /\ section = None
    /\ IdleStore /\ IdleGuide /\ IdleSchema /\ IdleExample /\ IdleSearch
    /\ IdleTasks /\ IdleServer /\ IdleCalc

\* SearchDocumentationTool._extract_key_sections(content, cluster, query)
ExtractKeySections ==
    /\ pc = "start"
    /\ sections' = extract_key_sections(content, cluster)
    /\ pc' = "split"
    /\ UNCHANGED <<calcVars, serverVars, taskVars, searchVars, exampleVars, intentVars,
                   storeVars, guidance, extractVars, schemaVars>>

NextSplit == ExtractKeySections

SpecSplit == InitSplit /\ [][NextSplit]_vars

(***************************************************************************)
(* Claims about the '## ' split (SpecSplit).                               *)
(***************************************************************************)
GuideLines == SplitOn(content, "\n")

\* the lines that open a '## ' block
HeadingLinesOf(lines) == {i \in DOMAIN lines : StartsWith(Strip(lines[i]), "## ")}

HeadingLines == HeadingLinesOf(GuideLines)

\* the trimmed text between a '## ' line and the next one, or the end
BlockBetween(lines, heads, i) ==
    LET later == {j \in heads : j > i}
        last == IF later = {} THEN Len(lines)
                ELSE (CHOOSE j \in later : \A k \in later : j <= k) - 1
    IN Strip(Join(SubSeq(lines, i + 1, last), "\n"))

BlockAfter(i) == BlockBetween(GuideLines, HeadingLines, i)

LongBlocksOf(lines, heads) == {i \in heads : Len(BlockBetween(lines, heads, i)) > 50}

\* the sections are the '## ' blocks `long` of the guide, in document order
SplitOf(lines, heads, long) ==
    /\ Len(sections) = Cardinality(long)
    /\ \A i \in long :
          LET k == Cardinality({j \in long : j <= i})
          IN /\ sections[k].title = Replace(Strip(lines[i]), "## ", "")
             /\ sections[k].content = BlockBetween(lines, heads, i)

SplitOfLong(lines, heads) == SplitOf(lines, heads, LongBlocksOf(lines, heads))

\* the sections are the long '## ' blocks of the guide, in document order
IsHeadingSplit == SplitOfLong(GuideLines, HeadingLinesOf(GuideLines))

\* the headers of the list that stand in the guide, and those whose
\* extracted text, trimmed, is longer than 50 characters
NamedPresentIn(lines) ==
    {i \in DOMAIN HeadersFor(cluster) : FindStart(lines, HeadersFor(cluster)[i], 1) > 0}

NamedPresent == NamedPresentIn(GuideLines)

NamedLongIn(lines, present) ==
    {i \in present : Len(Strip(SectionOfLines(lines, HeadersFor(cluster)[i]))) > 50}

NamedLong == NamedLongIn(GuideLines, NamedPresent)

\* the sections are those of the named headers in `named`, in list order
IsNamedList(named) ==
    /\ Len(sections) = Cardinality(named)
    /\ \A i \in named :
          LET k == Cardinality({j \in named : j <= i})
          IN sections[k].title = Replace(HeadersFor(cluster)[i], "## ", "")

SplitOrNamed(named) == IF named = {} THEN IsHeadingSplit ELSE IsNamedList(named)

\* C28 as stated: the '## ' split is used if and only if no named header
\* matches in the guide; it gives the blocks longer than 50 characters in
\* document order without the text before the first heading, and a named
\* header that stands in the guide never leads to it.
C28_SplitIffNoNamedHeader ==
    pc = "split" =>
        IF NamedPresent = {} THEN IsHeadingSplit
        ELSE \A k \in DOMAIN sections :
                \E i \in NamedPresent :
                    /\ sections[k].title = Replace(HeadersFor(cluster)[i], "## ", "")
                    /\ sections[k].content = Strip(SectionOfLines(GuideLines, HeadersFor(cluster)[i]))

\* C28 amended: the '## ' split is used if and only if no named header gives
\* a section longer than 50 characters, trimmed; it gives the blocks longer
\* than 50 characters in document order without the text before the first
\* heading; else the sections are those of the named headers.
C28_SplitIffNoLongNamedSection ==
    pc = "split" => SplitOrNamed(NamedLong)

\* a named header stands in the guide with a short text, and the split gives
\* two blocks in document order, the first under the named header itself
C28_Witness ==
    /\ pc = "split"
    /\ NamedPresent # {}
    /\ NamedLong = {}
    /\ Len(sections) = 2
    /\ sections[1].title = "Overview"
    /\ sections[2].title = "Last"
    /\ Find(content, "preamble") = 1

\* no named header stands in the guide and a block of 50 characters is left out
C28_AbsentWitness ==
    /\ pc = "split"
    /\ NamedPresent = {}
    /\ \E i \in HeadingLines : Len(BlockAfter(i)) = 50
    /\ Len(sections) = 2

====
